---- MODULE Spec2Model ----
(***************************************************************************)
(* Model of the fuzzy column-resolution engine of Sql_Agent                *)
(* (src/fuzzy_matcher.py) and of the callers that the properties below     *)
(* are about.                                                              *)
(*                                                                         *)
(* Strings are sequences of one-character strings, so that lower(),       *)
(* strip(), replace(), split() and the substring test are computed, not   *)
(* assumed.  A score is a float of the program; the model keeps it in     *)
(* ten-thousandths of a percent (83.333...% is 833333), rounded to nearest.*)
(***************************************************************************)
EXTENDS Integers, Sequences, FiniteSets, TLC

VARIABLES
    pc,                   \* position of the running call
    column_aliases,       \* FuzzyColumnMatcher.column_aliases
    alias_to_column,      \* FuzzyColumnMatcher.alias_to_column
    similarity_threshold, \* FuzzyColumnMatcher.similarity_threshold
    exact_threshold,      \* FuzzyColumnMatcher.exact_threshold
    search_term,          \* find_column_matches: search_term
    schema_info,          \* the caller's schema map
    top_n,                \* find_column_matches: top_n
    all_columns,          \* find_column_matches: the catalog of the call
    matches,              \* find_column_matches: the accumulated list
    result,               \* the value the call returned
    sql_query,            \* validate_sql_columns: sql_query
    error_message,        \* suggest_column_corrections: error_message
    pattern,              \* index of the pattern of the loop over column_patterns
    potential_columns,    \* validate_sql_columns: the candidates still to check
    found_names,          \* suggest_column_corrections: the names still to resolve
    valid_columns,        \* validate_sql_columns: valid_columns
    is_valid,             \* validate_sql_columns: is_valid
    suggestions,          \* the suggestions list of the running call
    looked_up,            \* the candidates validate_sql_columns has looked up
    called,               \* a call has returned and its caller has gone on
    frames,               \* the locals of the calls running side by side
    natural_query,        \* _preprocess_query_with_fuzzy_matching: natural_query
    enhanced_query,       \* _preprocess_query_with_fuzzy_matching: enhanced_query
    step,                 \* process_query: position of the request
    generated_sql,        \* process_query: sql_query, the reply of generate_sql
    validated_sql,        \* process_query: validated_sql
    validation_suggestions, \* process_query: validation_suggestions
    db_error,             \* process_query: str(db_error), if execution raised
    error_analysis,       \* process_query: error_analysis, if it was computed
    executed,             \* the texts handed to db_manager.execute_query
    steps_run,            \* the steps process_query has started, in order
    response,             \* what process_query returned, if it has
    use_sqlite,           \* DatabaseManager.use_sqlite
    dpc,                  \* position of the running _execute_*_query
    statement,            \* _execute_*_query: sql
    conn,                 \* _execute_*_query: conn / connection
    db_calls,             \* the calls made on the driver and the connection
    exc,                  \* the exception in flight in _execute_*_query
    outcome               \* how _execute_*_query ended

vars == <<pc, column_aliases, alias_to_column, similarity_threshold,
          exact_threshold, search_term, schema_info, top_n, all_columns,
          matches, result, sql_query, error_message, pattern,
          potential_columns, found_names, valid_columns, is_valid,
          suggestions, looked_up, called, frames, natural_query,
          enhanced_query, step, generated_sql, validated_sql,
          validation_suggestions, db_error, error_analysis, executed,
          steps_run, response,
          use_sqlite, dpc, statement, conn, db_calls, exc, outcome>>

matcher == <<column_aliases, alias_to_column, similarity_threshold, exact_threshold>>

\* the locals of find_column_matches
finder == <<search_term, top_n, all_columns, matches, result>>

\* the locals of validate_sql_columns and suggest_column_corrections
callers == <<sql_query, error_message, pattern, potential_columns,
             found_names, valid_columns, is_valid, suggestions, looked_up>>

\* the locals of process_query and what it did
endpoint == <<step, generated_sql, validated_sql, validation_suggestions,
              db_error, error_analysis, executed, steps_run, response>>

\* the locals of _execute_sqlite_query / _execute_mysql_query
database == <<use_sqlite, dpc, statement, conn, db_calls, exc, outcome>>

\* the locals of the query pipeline above the matcher
pipeline == <<natural_query, enhanced_query, endpoint, database>>

-----------------------------------------------------------------------------
(* Bounds of the model                                                     *)

\* top_n is drawn from 0..MaxTopN (the default of the code, 5, included)
MaxTopN == 5

\* a schema map holds at most MaxCols columns of the column pool
MaxCols == 3

-----------------------------------------------------------------------------
(* Python's str operations on sequences of characters                      *)

Max(a, b) == IF a >= b THEN a ELSE b

Min(a, b) == IF a <= b THEN a ELSE b

UpperChars == <<"A","B","C","D","E","F","G","H","I","J","K","L","M",
                "N","O","P","Q","R","S","T","U","V","W","X","Y","Z">>

LowerChars == <<"a","b","c","d","e","f","g","h","i","j","k","l","m",
                "n","o","p","q","r","s","t","u","v","w","x","y","z">>

DigitChars == {"0","1","2","3","4","5","6","7","8","9"}

\* str.lower() of one character
LowerChar(c) ==
    IF \E i \in 1..26 : UpperChars[i] = c
    THEN LowerChars[CHOOSE i \in 1..26 : UpperChars[i] = c]
    ELSE c

\* str.lower()
Lower(s) == [i \in 1..Len(s) |-> LowerChar(s[i])]

\* the characters str.strip() and \s take for whitespace
IsSpace(c) == c \in {" ", "\t", "\n"}

\* s[from..] of Python, 1-based and total
Drop(s, n) == SubSeq(s, n + 1, Len(s))

Take(s, n) == SubSeq(s, 1, Min(n, Len(s)))

\* str.strip(chars): remove the leading and trailing characters that are in cs
StripSet(s, cs) ==
    LET keep == {i \in 1..Len(s) : s[i] \notin cs}
    IN IF keep = {} THEN <<>>
       ELSE SubSeq(s, CHOOSE i \in keep : \A j \in keep : i <= j,
                      CHOOSE i \in keep : \A j \in keep : i >= j)

\* str.strip()
Strip(s) == StripSet(s, {" ", "\t", "\n"})

\* s.startswith(p) at offset i (0-based): p occurs in s at position i+1
OccursAt(s, p, i) ==
    /\ i + Len(p) <= Len(s)
    /\ \A k \in 1..Len(p) : s[i + k] = p[k]

StartsWith(s, p) == OccursAt(s, p, 0)

EndsWith(s, p) == Len(p) <= Len(s) /\ OccursAt(s, p, Len(s) - Len(p))

\* p in s
Contains(s, p) == \E i \in 0..(Len(s) - Len(p)) : OccursAt(s, p, i)

\* str.replace(old, new) for a non-empty old: leftmost, non-overlapping
RECURSIVE Replace(_, _, _)
Replace(s, old, new) ==
    IF Len(s) = 0 THEN <<>>
    ELSE IF OccursAt(s, old, 0)
         THEN new \o Replace(Drop(s, Len(old)), old, new)
         ELSE <<s[1]>> \o Replace(Drop(s, 1), old, new)

\* str.split(): the maximal runs of non-whitespace characters, in order
RECURSIVE SplitWs(_)
SplitWs(s) ==
    LET word == {i \in 1..Len(s) : ~IsSpace(s[i])}
    IN IF word = {} THEN <<>>
       ELSE LET b == CHOOSE i \in word : \A j \in word : i <= j
                stops == {i \in b..Len(s) : IsSpace(s[i])}
                e == IF stops = {} THEN Len(s) + 1
                     ELSE CHOOSE i \in stops : \A j \in stops : i <= j
            IN <<SubSeq(s, b, e - 1)>> \o SplitWs(Drop(s, e - 1))

\* str.split(sep)[-1] for a one-character sep: the text after the last sep
AfterLast(s, sep) ==
    LET at == {i \in 1..Len(s) : s[i] = sep}
    IN IF at = {} THEN s
       ELSE Drop(s, CHOOSE i \in at : \A j \in at : i >= j)

\* str.split(sep) for a one-character sep
RECURSIVE SplitOn(_, _)
SplitOn(s, sep) ==
    LET at == {i \in 1..Len(s) : s[i] = sep}
    IN IF at = {} THEN <<s>>
       ELSE LET i == CHOOSE i \in at : \A j \in at : i <= j
            IN <<SubSeq(s, 1, i - 1)>> \o SplitOn(Drop(s, i), sep)

-----------------------------------------------------------------------------
(* The scorers of rapidfuzz that the matcher calls                         *)

\* a score of n percent
Pct(n) == n * 10000

\* x/y rounded to the nearest integer (x >= 0, y > 0)
RoundDiv(x, y) == (2 * x + y) \div (2 * y)

\* one row of the longest-common-subsequence table: prev is the row of the
\* characters before x, cur the part of the row of x computed so far
RECURSIVE LcsRow(_, _, _, _)
LcsRow(prev, x, b, cur) ==
    IF Len(cur) = Len(b) + 1 THEN cur
    ELSE LET p == Len(cur)
             v == IF x = b[p] THEN prev[p] + 1 ELSE Max(prev[p + 1], cur[p])
         IN LcsRow(prev, x, b, Append(cur, v))

RECURSIVE LcsRows(_, _, _, _)
LcsRows(a, b, i, prev) ==
    IF i > Len(a) THEN prev[Len(b) + 1]
    ELSE LcsRows(a, b, i + 1, LcsRow(prev, a[i], b, <<0>>))

\* length of the longest common subsequence of a and b
Lcs(a, b) == LcsRows(a, b, 1, [j \in 1..(Len(b) + 1) |-> 0])

\* fuzz.ratio: the normalized Indel similarity, 100 * (1 - dist / (|a| + |b|))
\* with dist = |a| + |b| - 2 * lcs
Ratio(a, b) ==
    IF Len(a) + Len(b) = 0 THEN Pct(100)
    ELSE RoundDiv(Pct(100) * 2 * Lcs(a, b), Len(a) + Len(b))

MaxOf(S) == IF S = {} THEN 0 ELSE CHOOSE x \in S : \A y \in S : x >= y

MinOf(S) == IF S = {} THEN 0 ELSE CHOOSE x \in S : \A y \in S : x <= y

CharSet(s) == {s[i] : i \in 1..Len(s)}

\* _partial_ratio_impl for len(s1) <= len(s2): the best ratio of s1 against
\* the prefixes of s2 shorter than s1, the windows of s2 as long as s1 and
\* the suffixes of s2 no longer than s1; a window is skipped when the
\* character it was extended by does not occur in s1
PartialRatioImpl(s1, s2) ==
    LET len1 == Len(s1)
        len2 == Len(s2)
        cs == CharSet(s1)
        pre == {<<1, i>> : i \in {i \in 1..(len1 - 1) : s2[i] \in cs}}
        mid == {<<i + 1, i + len1>> :
                   i \in {i \in 0..(len2 - len1 - 1) : s2[i + len1] \in cs}}
        suf == {<<i + 1, len2>> :
                   i \in {i \in (len2 - len1)..(len2 - 1) : s2[i + 1] \in cs}}
    IN IF len1 = 0 THEN 0  \* no character of s2 occurs in an empty s1
       ELSE MaxOf({Ratio(s1, SubSeq(s2, w[1], w[2])) :
                      w \in pre \cup mid \cup suf})

\* fuzz.partial_ratio
PartialRatio(s1, s2) ==
    IF Len(s1) = 0 /\ Len(s2) = 0 THEN Pct(100)
    ELSE LET shorter == IF Len(s1) <= Len(s2) THEN s1 ELSE s2
             longer == IF Len(s1) <= Len(s2) THEN s2 ELSE s1
             res == PartialRatioImpl(shorter, longer)
         IN IF res # Pct(100) /\ Len(s1) = Len(s2)
            THEN Max(res, PartialRatioImpl(longer, shorter))
            ELSE res

\* fuzz.WRatio on two strings without inner whitespace, where each string is
\* its only token: token_ratio is ratio and partial_token_ratio is
\* partial_ratio (100 when the tokens are equal), so the weighted maximum is
\*   len_ratio < 1.5 :  max(ratio, 0.95 * ratio)
\*   otherwise       :  max(ratio, scale * partial_ratio,
\*                          0.95 * scale * partial_token_ratio)
\* with scale 0.9 up to a length ratio of 8 and 0.6 beyond
WRatio(s1, s2) ==
    IF Len(s1) = 0 \/ Len(s2) = 0 THEN 0
    ELSE LET lmax == Max(Len(s1), Len(s2))
             lmin == Min(Len(s1), Len(s2))
             end_ratio == Ratio(s1, s2)
             token_ratio == IF s1 = s2 THEN Pct(100) ELSE end_ratio
         IN IF 2 * lmax < 3 * lmin
            THEN Max(end_ratio, RoundDiv(token_ratio * 95, 100))
            ELSE LET scale == IF lmax <= 8 * lmin THEN 90 ELSE 60
                     partial == PartialRatio(s1, s2)
                     partial_token == IF s1 = s2 THEN Pct(100) ELSE partial
                 IN Max(Max(end_ratio, RoundDiv(partial * scale, 100)),
                        \* 0.95 * scale, as (19 * scale / 10) / 200
                        RoundDiv(partial_token * ((19 * scale) \div 10), 200))

-----------------------------------------------------------------------------
(* Python's re on sequences of characters: the patterns of the matcher are *)
(* sequences of nodes, matched with the backtracking order of re under     *)
(* re.IGNORECASE | re.DOTALL                                               *)

\* a character class: the characters listed, \s, \w and \d, negated or not
CharClass(chars, space, word, digit, neg) ==
    [chars |-> chars, space |-> space, word |-> word, digit |-> digit,
     neg |-> neg]

\* \s
SpaceClass == CharClass({}, TRUE, FALSE, FALSE, FALSE)

\* . under re.DOTALL
AnyClass == CharClass({}, FALSE, FALSE, FALSE, TRUE)

\* \w
WordClass == CharClass({}, FALSE, TRUE, FALSE, FALSE)

\* [chars]
OneOf(chars) == CharClass(chars, FALSE, FALSE, FALSE, FALSE)

\* [^chars]
NoneOf(chars) == CharClass(chars, FALSE, FALSE, FALSE, TRUE)

\* [^chars\s]
NoneOfNorSpace(chars) == CharClass(chars, TRUE, FALSE, FALSE, TRUE)

IsWordChar(c) ==
    \/ \E i \in 1..26 : UpperChars[i] = c \/ LowerChars[i] = c
    \/ c \in DigitChars
    \/ c = "_"

InClass(c, cls) ==
    (\/ c \in cls.chars
     \/ cls.space /\ IsSpace(c)
     \/ cls.word /\ IsWordChar(c)
     \/ cls.digit /\ c \in DigitChars) # cls.neg

\* the nodes: literal text (written in lower case, compared ignoring case),
\* cls+ / cls* greedy or lazy, one character of a class, the parentheses of
\* group 1, an alternation of patterns, ^ and $
Lit(chars) == [kind |-> "lit", chars |-> chars]

Rep(cls, min, greedy) ==
    [kind |-> "rep", cls |-> cls, min |-> min, greedy |-> greedy]

One(cls) == [kind |-> "one", cls |-> cls]

Open == [kind |-> "open"]

Close == [kind |-> "close"]

Alt(alts) == [kind |-> "alt", alts |-> alts]

StartAnchor == [kind |-> "start"]

EndAnchor == [kind |-> "end"]

NoMatch == [ok |-> FALSE]

\* the number of characters of s from pos on that are in cls
RunLength(s, pos, cls) ==
    LET stops == {i \in pos..Len(s) : ~InClass(s[i], cls)}
    IN IF stops = {} THEN Len(s) - pos + 1
       ELSE (CHOOSE i \in stops : \A j \in stops : i <= j) - pos

\* the match of the pattern re at position pos of s that re finds first:
\* a greedy repetition takes the longest run with which the rest of the
\* pattern matches, a lazy one the shortest, an alternation the leftmost
\* branch with which the rest matches
RECURSIVE MatchFrom(_, _, _, _)
MatchFrom(re, s, pos, group) ==
    IF re = <<>> THEN [ok |-> TRUE, end |-> pos, group |-> group]
    ELSE LET node == Head(re)
             rest == Tail(re)
         IN CASE node.kind = "lit" ->
                   IF /\ pos + Len(node.chars) - 1 <= Len(s)
                      /\ \A k \in 1..Len(node.chars) :
                            LowerChar(s[pos + k - 1]) = node.chars[k]
                   THEN MatchFrom(rest, s, pos + Len(node.chars), group)
                   ELSE NoMatch
              [] node.kind = "one" ->
                   IF pos <= Len(s) /\ InClass(s[pos], node.cls)
                   THEN MatchFrom(rest, s, pos + 1, group)
                   ELSE NoMatch
              [] node.kind = "rep" ->
                   LET run == RunLength(s, pos, node.cls)
                       fits == {n \in node.min..run :
                                   MatchFrom(rest, s, pos + n, group).ok}
                   IN IF fits = {} THEN NoMatch
                      ELSE MatchFrom(rest, s,
                               pos + (IF node.greedy THEN MaxOf(fits)
                                      ELSE MinOf(fits)),
                               group)
              [] node.kind = "open" ->
                   MatchFrom(rest, s, pos, <<pos, group[2]>>)
              [] node.kind = "close" ->
                   MatchFrom(rest, s, pos, <<group[1], pos>>)
              [] node.kind = "alt" ->
                   LET fits == {i \in 1..Len(node.alts) :
                                   MatchFrom(node.alts[i] \o rest, s, pos,
                                             group).ok}
                   IN IF fits = {} THEN NoMatch
                      ELSE MatchFrom(node.alts[MinOf(fits)] \o rest, s, pos,
                                     group)
              [] node.kind = "start" ->
                   IF pos = 1 THEN MatchFrom(rest, s, pos, group) ELSE NoMatch
              [] node.kind = "end" ->
                   IF \/ pos = Len(s) + 1
                      \/ pos = Len(s) /\ s[pos] = "\n"
                   THEN MatchFrom(rest, s, pos, group)
                   ELSE NoMatch

\* re.search from position from: the leftmost match
Search(re, s, from) ==
    LET starts == {i \in from..(Len(s) + 1) :
                      MatchFrom(re, s, i, <<0, 0>>).ok}
    IN IF starts = {} THEN NoMatch
       ELSE LET start == MinOf(starts)
                m == MatchFrom(re, s, start, <<0, 0>>)
            IN [ok |-> TRUE, start |-> start, end |-> m.end,
                group |-> m.group]

\* re.findall for a pattern with one group: the text of group 1 in the
\* non-overlapping matches, from left to right
RECURSIVE FindAll(_, _, _)
FindAll(re, s, from) ==
    LET m == Search(re, s, from)
    IN IF ~m.ok THEN <<>>
       ELSE <<SubSeq(s, m.group[1], m.group[2] - 1)>>
            \o FindAll(re, s, IF m.end = m.start THEN m.end + 1 ELSE m.end)

\* re.sub(re, '', s): s without the non-overlapping matches of re
RECURSIVE Sub(_, _, _)
Sub(re, s, from) ==
    LET m == Search(re, s, from)
    IN IF ~m.ok THEN SubSeq(s, from, Len(s))
       ELSE IF m.end = m.start
            THEN SubSeq(s, from, Min(m.start, Len(s)))
                 \o Sub(re, s, m.end + 1)
            ELSE SubSeq(s, from, m.start - 1) \o Sub(re, s, m.end)

\* re.match(re, s)
Match(re, s) == MatchFrom(re, s, 1, <<0, 0>>).ok

\* the decimal digits of n >= 0
RECURSIVE IntStr(_)
IntStr(n) ==
    LET digit == <<"0","1","2","3","4","5","6","7","8","9">>[(n % 10) + 1]
    IN IF n < 10 THEN <<digit>> ELSE Append(IntStr(n \div 10), digit)

\* f"{score:.1f}": one decimal, the nearest tenth (a tie to the even one)
Format1f(score) ==
    LET unit == Pct(1) \div 10
        down == score \div unit
        left == score % unit
        tenths == IF 2 * left > unit \/ (2 * left = unit /\ down % 2 = 1)
                  THEN down + 1 ELSE down
    IN IntStr(tenths \div 10) \o <<".">> \o IntStr(tenths % 10)

-----------------------------------------------------------------------------
(* FuzzyColumnMatcher: construction                                        *)

\* self.column_aliases of __init__, in the order of the dict literal:
\* <<canonical term, <<aliases>>>>
ColumnAliases == <<
    \* 'id': ['identifier', 'key', 'pk']
    <<<<"i","d">>,
      <<<<"i","d","e","n","t","i","f","i","e","r">>,
        <<"k","e","y">>,
        <<"p","k">>>>>>,
    \* 'name': ['title', 'label', 'description']
    <<<<"n","a","m","e">>,
      <<<<"t","i","t","l","e">>,
        <<"l","a","b","e","l">>,
        <<"d","e","s","c","r","i","p","t","i","o","n">>>>>>,
    \* 'email': ['mail', 'e-mail', 'email_address']
    <<<<"e","m","a","i","l">>,
      <<<<"m","a","i","l">>,
        <<"e","-","m","a","i","l">>,
        <<"e","m","a","i","l","_","a","d","d","r","e","s","s">>>>>>,
    \* 'phone': ['telephone', 'tel', 'mobile', 'cell']
    <<<<"p","h","o","n","e">>,
      <<<<"t","e","l","e","p","h","o","n","e">>,
        <<"t","e","l">>,
        <<"m","o","b","i","l","e">>,
        <<"c","e","l","l">>>>>>,
    \* 'date': ['dt', 'datetime', 'timestamp']
    <<<<"d","a","t","e">>,
      <<<<"d","t">>,
        <<"d","a","t","e","t","i","m","e">>,
        <<"t","i","m","e","s","t","a","m","p">>>>>>,
    \* 'created': ['created_date', 'creation_date', 'date_created']
    <<<<"c","r","e","a","t","e","d">>,
      <<<<"c","r","e","a","t","e","d","_","d","a","t","e">>,
        <<"c","r","e","a","t","i","o","n","_","d","a","t","e">>,
        <<"d","a","t","e","_","c","r","e","a","t","e","d">>>>>>,
    \* 'modified': ['updated', 'modified_date', 'last_modified', 'date_modified']
    <<<<"m","o","d","i","f","i","e","d">>,
      <<<<"u","p","d","a","t","e","d">>,
        <<"m","o","d","i","f","i","e","d","_","d","a","t","e">>,
        <<"l","a","s","t","_","m","o","d","i","f","i","e","d">>,
        <<"d","a","t","e","_","m","o","d","i","f","i","e","d">>>>>>,
    \* 'status': ['state', 'condition', 'stage']
    <<<<"s","t","a","t","u","s">>,
      <<<<"s","t","a","t","e">>,
        <<"c","o","n","d","i","t","i","o","n">>,
        <<"s","t","a","g","e">>>>>>,
    \* 'type': ['category', 'kind', 'classification']
    <<<<"t","y","p","e">>,
      <<<<"c","a","t","e","g","o","r","y">>,
        <<"k","i","n","d">>,
        <<"c","l","a","s","s","i","f","i","c","a","t","i","o","n">>>>>>,
    \* 'amount': ['value', 'cost', 'price', 'total']
    <<<<"a","m","o","u","n","t">>,
      <<<<"v","a","l","u","e">>,
        <<"c","o","s","t">>,
        <<"p","r","i","c","e">>,
        <<"t","o","t","a","l">>>>>>,
    \* 'instructor': ['teacher', 'staff', 'educator', 'facilitator']
    <<<<"i","n","s","t","r","u","c","t","o","r">>,
      <<<<"t","e","a","c","h","e","r">>,
        <<"s","t","a","f","f">>,
        <<"e","d","u","c","a","t","o","r">>,
        <<"f","a","c","i","l","i","t","a","t","o","r">>>>>>,
    \* 'student': ['pupil', 'learner', 'participant']
    <<<<"s","t","u","d","e","n","t">>,
      <<<<"p","u","p","i","l">>,
        <<"l","e","a","r","n","e","r">>,
        <<"p","a","r","t","i","c","i","p","a","n","t">>>>>>,
    \* 'school': ['institution', 'organization', 'org', 'academy']
    <<<<"s","c","h","o","o","l">>,
      <<<<"i","n","s","t","i","t","u","t","i","o","n">>,
        <<"o","r","g","a","n","i","z","a","t","i","o","n">>,
        <<"o","r","g">>,
        <<"a","c","a","d","e","m","y">>>>>>,
    \* 'program': ['course', 'class', 'session', 'workshop']
    <<<<"p","r","o","g","r","a","m">>,
      <<<<"c","o","u","r","s","e">>,
        <<"c","l","a","s","s">>,
        <<"s","e","s","s","i","o","n">>,
        <<"w","o","r","k","s","h","o","p">>>>>>,
    \* 'semester': ['term', 'period', 'academic_year']
    <<<<"s","e","m","e","s","t","e","r">>,
      <<<<"t","e","r","m">>,
        <<"p","e","r","i","o","d">>,
        <<"a","c","a","d","e","m","i","c","_","y","e","a","r">>>>>>,
    \* 'contact': ['person', 'individual', 'user']
    <<<<"c","o","n","t","a","c","t">>,
      <<<<"p","e","r","s","o","n">>,
        <<"i","n","d","i","v","i","d","u","a","l">>,
        <<"u","s","e","r">>>>>>,
    \* 'account': ['organization', 'company', 'client', 'customer']
    <<<<"a","c","c","o","u","n","t">>,
      <<<<"o","r","g","a","n","i","z","a","t","i","o","n">>,
        <<"c","o","m","p","a","n","y">>,
        <<"c","l","i","e","n","t">>,
        <<"c","u","s","t","o","m","e","r">>>>>>,
    \* 'opportunity': ['deal', 'project', 'engagement']
    <<<<"o","p","p","o","r","t","u","n","i","t","y">>,
      <<<<"d","e","a","l">>,
        <<"p","r","o","j","e","c","t">>,
        <<"e","n","g","a","g","e","m","e","n","t">>>>>>,
    \* 'account_name': ['organization_name', 'company_name']
    <<<<"a","c","c","o","u","n","t","_","n","a","m","e">>,
      <<<<"o","r","g","a","n","i","z","a","t","i","o","n","_","n","a","m","e">>,
        <<"c","o","m","p","a","n","y","_","n","a","m","e">>>>>>,
    \* 'contact_name': ['person_name', 'full_name']
    <<<<"c","o","n","t","a","c","t","_","n","a","m","e">>,
      <<<<"p","e","r","s","o","n","_","n","a","m","e">>,
        <<"f","u","l","l","_","n","a","m","e">>>>>>,
    \* 'record_type': ['type', 'category', 'classification']
    <<<<"r","e","c","o","r","d","_","t","y","p","e">>,
      <<<<"t","y","p","e">>,
        <<"c","a","t","e","g","o","r","y">>,
        <<"c","l","a","s","s","i","f","i","c","a","t","i","o","n">>>>>>,
    \* 'stage_name': ['status', 'stage', 'phase']
    <<<<"s","t","a","g","e","_","n","a","m","e">>,
      <<<<"s","t","a","t","u","s">>,
        <<"s","t","a","g","e">>,
        <<"p","h","a","s","e">>>>>>,
    \* 'close_date': ['end_date', 'completion_date']
    <<<<"c","l","o","s","e","_","d","a","t","e">>,
      <<<<"e","n","d","_","d","a","t","e">>,
        <<"c","o","m","p","l","e","t","i","o","n","_","d","a","t","e">>>>>>,
    \* 'is_deleted': ['deleted', 'active', 'inactive']
    <<<<"i","s","_","d","e","l","e","t","e","d">>,
      <<<<"d","e","l","e","t","e","d">>,
        <<"a","c","t","i","v","e">>,
        <<"i","n","a","c","t","i","v","e">>>>>>
>>

\* table_contexts of _get_table_context: <<table name, context words>>
TableContexts == <<
    \* 'Account': 'organization company school client customer'
    <<<<"A","c","c","o","u","n","t">>,
      <<"o","r","g","a","n","i","z","a","t","i","o","n"," ","c","o","m",
        "p","a","n","y"," ","s","c","h","o","o","l"," ","c","l","i","e",
        "n","t"," ","c","u","s","t","o","m","e","r">>>>,
    \* 'Contact': 'person individual user staff instructor teacher'
    <<<<"C","o","n","t","a","c","t">>,
      <<"p","e","r","s","o","n"," ","i","n","d","i","v","i","d","u","a",
        "l"," ","u","s","e","r"," ","s","t","a","f","f"," ","i","n","s",
        "t","r","u","c","t","o","r"," ","t","e","a","c","h","e","r">>>>,
    \* 'Opportunity': 'deal project program engagement grant donation'
    <<<<"O","p","p","o","r","t","u","n","i","t","y">>,
      <<"d","e","a","l"," ","p","r","o","j","e","c","t"," ","p","r","o",
        "g","r","a","m"," ","e","n","g","a","g","e","m","e","n","t"," ",
        "g","r","a","n","t"," ","d","o","n","a","t","i","o","n">>>>,
    \* 'Session': 'class workshop program course meeting'
    <<<<"S","e","s","s","i","o","n">>,
      <<"c","l","a","s","s"," ","w","o","r","k","s","h","o","p"," ","p",
        "r","o","g","r","a","m"," ","c","o","u","r","s","e"," ","m","e",
        "e","t","i","n","g">>>>,
    \* 'ProgramInstructorAvailability': 'instructor teacher staff availability schedule'
    <<<<"P","r","o","g","r","a","m","I","n","s","t","r","u","c","t","o","r","A","v","a","i","l","a","b","i","l","i","t","y">>,
      <<"i","n","s","t","r","u","c","t","o","r"," ","t","e","a","c","h",
        "e","r"," ","s","t","a","f","f"," ","a","v","a","i","l","a","b",
        "i","l","i","t","y"," ","s","c","h","e","d","u","l","e">>>>,
    \* 'Student': 'pupil learner participant child'
    <<<<"S","t","u","d","e","n","t">>,
      <<"p","u","p","i","l"," ","l","e","a","r","n","e","r"," ","p","a",
        "r","t","i","c","i","p","a","n","t"," ","c","h","i","l","d">>>>,
    \* 'Campaign': 'marketing outreach communication email'
    <<<<"C","a","m","p","a","i","g","n">>,
      <<"m","a","r","k","e","t","i","n","g"," ","o","u","t","r","e","a",
        "c","h"," ","c","o","m","m","u","n","i","c","a","t","i","o","n",
        " ","e","m","a","i","l">>>>,
    \* 'Lead': 'prospect potential customer inquiry'
    <<<<"L","e","a","d">>,
      <<"p","r","o","s","p","e","c","t"," ","p","o","t","e","n","t","i",
        "a","l"," ","c","u","s","t","o","m","e","r"," ","i","n","q","u",
        "i","r","y">>>>
>>

\* the <<alias.lower(), column.lower()>> pairs in the order the loops of
\* __init__ assign them
AliasPairs(aliases) ==
    LET RECURSIVE Of(_)
        Of(i) == IF i > Len(aliases) THEN <<>>
                 ELSE [k \in 1..Len(aliases[i][2]) |->
                          <<Lower(aliases[i][2][k]), Lower(aliases[i][1])>>]
                      \o Of(i + 1)
    IN Of(1)

\* alias_to_column as __init__ leaves it: a later assignment to the same
\* alias overwrites an earlier one
AliasToColumn(aliases) ==
    LET pairs == AliasPairs(aliases)
        keys == {pairs[i][1] : i \in 1..Len(pairs)}
        last(k) == CHOOSE i \in 1..Len(pairs) :
                      /\ pairs[i][1] = k
                      /\ \A j \in 1..Len(pairs) : pairs[j][1] = k => j <= i
    IN [k \in keys |-> pairs[last(k)][2]]

-----------------------------------------------------------------------------
(* The catalog of one call                                                 *)

\* _get_table_context: table_contexts.get(table_name, '')
GetTableContext(table_name) ==
    IF \E i \in 1..Len(TableContexts) : TableContexts[i][1] = table_name
    THEN TableContexts[CHOOSE i \in 1..Len(TableContexts) :
                           TableContexts[i][1] = table_name][2]
    ELSE <<>>

\* _create_searchable_text
CreateSearchableText(column_name, table_name) ==
    LET searchable0 == Lower(column_name)
        clean_name == Lower(Replace(Replace(column_name, <<"_">>, <<>>),
                                    <<"_","_","c">>, <<>>))
        searchable1 == IF clean_name # searchable0
                       THEN searchable0 \o <<" ">> \o clean_name
                       ELSE searchable0
        spaced_name == Lower(Replace(Replace(column_name, <<"_">>, <<" ">>),
                                     <<"_","_","c">>, <<>>))
        searchable2 == IF ~Contains(searchable1, spaced_name)
                       THEN searchable1 \o <<" ">> \o spaced_name
                       ELSE searchable1
        table_context == GetTableContext(table_name)
    IN IF table_context # <<>>
       THEN searchable2 \o <<" ">> \o table_context
       ELSE searchable2

\* mutant: the catalog loop reads the first table of the schema map before
\* it looks at the columns, and raises on the empty map
CatalogRaises_OnEmpty(schema) ==
    \/ schema = <<>>
    \/ \E i \in 1..Len(schema) : \E k \in 1..Len(schema[i][2]) :
          "column" \notin DOMAIN schema[i][2][k]

\* col_info['column'] raises KeyError for some record of the schema map
CatalogRaises(schema) ==
    \E i \in 1..Len(schema) : \E k \in 1..Len(schema[i][2]) :
        "column" \notin DOMAIN schema[i][2][k]

\* the columns of one table of the schema map, as catalog entries
TableColumns(table_name, columns) ==
    [k \in 1..Len(columns) |->
        [column |-> columns[k].column,
         table |-> table_name,
         column_lower |-> Lower(columns[k].column),
         searchable_text |-> CreateSearchableText(columns[k].column, table_name)]]

\* all_columns: the flat list built from schema_info.items()
RECURSIVE AllColumnsFrom(_, _)
AllColumnsFrom(schema, i) ==
    IF i > Len(schema) THEN <<>>
    ELSE TableColumns(schema[i][1], schema[i][2]) \o AllColumnsFrom(schema, i + 1)

AllColumns(schema) == AllColumnsFrom(schema, 1)

-----------------------------------------------------------------------------------------------------------------------------------------------------
(* validate_sql_columns and suggest_column_corrections                     *)

\* column_patterns of validate_sql_columns
SqlColumnPatterns == <<
    \* SELECT\s+(.+?)\s+FROM
    <<Lit(<<"s","e","l","e","c","t">>), Rep(SpaceClass, 1, TRUE),
      Open, Rep(AnyClass, 1, FALSE), Close,
      Rep(SpaceClass, 1, TRUE), Lit(<<"f","r","o","m">>)>>,
    \* WHERE\s+([^=<>!]+?)(?:\s*[=<>!]|\s+LIKE|\s+IN)
    <<Lit(<<"w","h","e","r","e">>), Rep(SpaceClass, 1, TRUE),
      Open, Rep(NoneOf({"=", "<", ">", "!"}), 1, FALSE), Close,
      Alt(<< <<Rep(SpaceClass, 0, TRUE), One(OneOf({"=", "<", ">", "!"}))>>,
             <<Rep(SpaceClass, 1, TRUE), Lit(<<"l","i","k","e">>)>>,
             <<Rep(SpaceClass, 1, TRUE), Lit(<<"i","n">>)>> >>)>>,
    \* ORDER\s+BY\s+([^,\s]+)
    <<Lit(<<"o","r","d","e","r">>), Rep(SpaceClass, 1, TRUE), Lit(<<"b","y">>),
      Rep(SpaceClass, 1, TRUE),
      Open, Rep(NoneOfNorSpace({","}), 1, TRUE), Close>>,
    \* GROUP\s+BY\s+([^,\s]+)
    <<Lit(<<"g","r","o","u","p">>), Rep(SpaceClass, 1, TRUE), Lit(<<"b","y">>),
      Rep(SpaceClass, 1, TRUE),
      Open, Rep(NoneOfNorSpace({","}), 1, TRUE), Close>>,
    \* JOIN\s+\w+\s+ON\s+([^=\s]+)
    <<Lit(<<"j","o","i","n">>), Rep(SpaceClass, 1, TRUE), Rep(WordClass, 1, TRUE),
      Rep(SpaceClass, 1, TRUE), Lit(<<"o","n">>), Rep(SpaceClass, 1, TRUE),
      Open, Rep(NoneOfNorSpace({"="}), 1, TRUE), Close>>
>>

\* \s*(ASC|DESC)\s*$
AscDescPattern ==
    <<Rep(SpaceClass, 0, TRUE),
      Alt(<< <<Lit(<<"a","s","c">>)>>, <<Lit(<<"d","e","s","c">>)>> >>),
      Rep(SpaceClass, 0, TRUE), EndAnchor>>

\* ^[\d\.\-\+]+$
NumericPattern ==
    <<StartAnchor,
      Rep(CharClass({".", "-", "+"}, FALSE, FALSE, TRUE, FALSE), 1, TRUE),
      EndAnchor>>

\* sql_keywords of _is_sql_keyword_or_function
SqlKeywords == {
    <<"s","e","l","e","c","t">>,
    <<"f","r","o","m">>,
    <<"w","h","e","r","e">>,
    <<"j","o","i","n">>,
    <<"i","n","n","e","r">>,
    <<"l","e","f","t">>,
    <<"r","i","g","h","t">>,
    <<"o","u","t","e","r">>,
    <<"o","n">>,
    <<"a","n","d">>,
    <<"o","r">>,
    <<"n","o","t">>,
    <<"i","n">>,
    <<"l","i","k","e">>,
    <<"b","e","t","w","e","e","n">>,
    <<"i","s">>,
    <<"n","u","l","l">>,
    <<"c","o","u","n","t">>,
    <<"s","u","m">>,
    <<"a","v","g">>,
    <<"m","a","x">>,
    <<"m","i","n">>,
    <<"d","i","s","t","i","n","c","t">>,
    <<"a","s">>,
    <<"o","r","d","e","r">>,
    <<"b","y">>,
    <<"g","r","o","u","p">>,
    <<"h","a","v","i","n","g">>,
    <<"l","i","m","i","t">>,
    <<"o","f","f","s","e","t">>,
    <<"u","n","i","o","n">>,
    <<"a","l","l">>,
    <<"c","a","s","e">>,
    <<"w","h","e","n">>,
    <<"t","h","e","n">>,
    <<"e","l","s","e">>,
    <<"e","n","d">>,
    <<"i","f">>,
    <<"e","x","i","s","t","s">>,
    <<"a","n","y">>,
    <<"s","o","m","e">>,
    <<"*">>
}

\* mutant: the keyword test without lower()
IsSqlKeywordOrFunction_CaseSensitive(term) ==
    \/ Strip(term) \in SqlKeywords
    \/ \E i \in 1..Len(term) : term[i] \in {"(", ")"}
    \/ Match(NumericPattern, Strip(Lower(term)))
    \/ StartsWith(term, <<"'">>) /\ EndsWith(term, <<"'">>)
    \/ StartsWith(term, <<"\"">>) /\ EndsWith(term, <<"\"">>)

\* _is_sql_keyword_or_function
IsSqlKeywordOrFunction(term) ==
    LET term_lower == Strip(Lower(term))
    IN \/ term_lower \in SqlKeywords
       \/ \E i \in 1..Len(term) : term[i] \in {"(", ")"}
       \/ Match(NumericPattern, term_lower)
       \/ StartsWith(term, <<"'">>) /\ EndsWith(term, <<"'">>)
       \/ StartsWith(term, <<"\"">>) /\ EndsWith(term, <<"\"">>)

\* valid_columns: the lowercased column names, bare and with the table prefix
ValidColumns(schema) ==
    UNION {{Lower(schema[t][2][c].column),
            Lower(schema[t][1]) \o <<".">> \o Lower(schema[t][2][c].column)} :
              <<t, c>> \in {<<t, c>> \in (1..Len(schema)) \X (1..MaxCols + 1) :
                               c <= Len(schema[t][2])}}

\* [col.strip() for col in match.split(',')]
PotentialColumns(match) ==
    LET parts == SplitOn(match, ",")
    IN [i \in 1..Len(parts) |-> Strip(parts[i])]

\* the potential columns of all the matches of one pattern, in order
RECURSIVE PotentialColumnsOfAll(_, _)
PotentialColumnsOfAll(found, i) ==
    IF i > Len(found) THEN <<>>
    ELSE PotentialColumns(found[i]) \o PotentialColumnsOfAll(found, i + 1)

\* clean_col: the ASC/DESC suffix removed, then the surrounding quotes
CleanCol(col) ==
    StripSet(Sub(AscDescPattern, Strip(col), 1), {"backtick", "\"", "'"})

\* the lines of one block of validate_sql_columns
IssueHeader(clean_col) ==
    <<"P","o","t","e","n","t","i","a","l"," ","i","s","s","u","e"," ","w","i","t","h"," ","c","o","l","u","m","n"," ","'">>
    \o clean_col \o <<"'",":">>

IssueLine(match) ==
    <<" "," ","bullet"," ","D","i","d"," ","y","o","u"," ","m","e","a","n"," ">>
    \o match.table_name \o <<".">> \o match.matched_column
    \o <<"?"," ","(","s","i","m","i","l","a","r","i","t","y",":"," ">>
    \o Format1f(match.similarity_score) \o <<"%",")">>

IssueBlock(clean_col, column_matches) ==
    <<IssueHeader(clean_col)>>
    \o [i \in 1..Min(3, Len(column_matches)) |-> IssueLine(column_matches[i])]
    \o << <<>> >>

\* column_patterns of suggest_column_corrections
ErrorColumnPatterns == <<
    \* Unknown column '([^']+)'
    <<Lit(<<"u","n","k","n","o","w","n"," ","c","o","l","u","m","n"," ","'">>),
      Open, Rep(NoneOf({"'"}), 1, TRUE), Close, Lit(<<"'">>)>>,
    \* Column '([^']+)' doesn't exist
    <<Lit(<<"c","o","l","u","m","n"," ","'">>),
      Open, Rep(NoneOf({"'"}), 1, TRUE), Close,
      Lit(<<"'"," ","d","o","e","s","n","'","t"," ","e","x","i","s","t">>)>>,
    \* Invalid column name '([^']+)'
    <<Lit(<<"i","n","v","a","l","i","d"," ","c","o","l","u","m","n"," ","n","a","m","e"," ","'">>),
      Open, Rep(NoneOf({"'"}), 1, TRUE), Close, Lit(<<"'">>)>>,
    \* column \"([^\"]+)\" does not exist
    <<Lit(<<"c","o","l","u","m","n"," ","\"">>),
      Open, Rep(NoneOf({"\""}), 1, TRUE), Close,
      Lit(<<"\""," ","d","o","e","s"," ","n","o","t"," ","e","x","i","s","t">>)>>,
    \* no such column: ([^\s]+)
    <<Lit(<<"n","o"," ","s","u","c","h"," ","c","o","l","u","m","n",":"," ">>),
      Open, Rep(NoneOfNorSpace({}), 1, TRUE), Close>>
>>

\* the lines of one block of suggest_column_corrections
NotFoundHeader(column_name) ==
    <<"C","o","l","u","m","n"," ","'">> \o column_name
    \o <<"'"," ","n","o","t"," ","f","o","u","n","d","."," ","D","i","d"," ","y","o","u"," ","m","e","a","n",":">>

SimilarityLine(match) ==
    <<" "," ","bullet"," ">> \o match.table_name \o <<".">> \o match.matched_column
    \o <<" ","(","s","i","m","i","l","a","r","i","t","y",":"," ">>
    \o Format1f(match.similarity_score) \o <<"%",")">>

\* mutant: the header names the best match instead of the unresolved column
SuggestionBlock_NamesMatch(column_name, column_matches) ==
    <<NotFoundHeader(column_matches[1].matched_column)>>
    \o [i \in 1..Min(3, Len(column_matches)) |->
           SimilarityLine(column_matches[i])]
    \o << <<>> >>

\* mutant: the block without its separator line
SuggestionBlock_NoSeparator(column_name, column_matches) ==
    <<NotFoundHeader(column_name)>>
    \o [i \in 1..Min(3, Len(column_matches)) |->
           SimilarityLine(column_matches[i])]

SuggestionBlock(column_name, column_matches) ==
    <<NotFoundHeader(column_name)>>
    \o [i \in 1..Min(3, Len(column_matches)) |->
           SimilarityLine(column_matches[i])]
    \o << <<>> >>

-----------------------------------------------------------------------------
(* The strings of the calls                                                *)

\* the (table, column) pairs the schema maps are made of
ColumnPool == <<
    \* Contact.Email
    <<<<"C","o","n","t","a","c","t">>,
      <<"E","m","a","i","l">>>>,
    \* Contact.Email_Address
    <<<<"C","o","n","t","a","c","t">>,
      <<"E","m","a","i","l","_","A","d","d","r","e","s","s">>>>,
    \* Session.Status
    <<<<"S","e","s","s","i","o","n">>,
      <<"S","t","a","t","u","s">>>>,
    \* Session.Session_Date__c
    <<<<"S","e","s","s","i","o","n">>,
      <<"S","e","s","s","i","o","n","_","D","a","t","e","_","_","c">>>>,
    \* ProgramInstructorAvailability.Instructor_Name__c
    <<<<"P","r","o","g","r","a","m","I","n","s","t","r","u","c","t","o","r","A","v","a","i","l","a","b","i","l","i","t","y">>,
      <<"I","n","s","t","r","u","c","t","o","r","_","N","a","m","e","_","_","c">>>>,
    \* Account.Status
    <<<<"A","c","c","o","u","n","t">>,
      <<"S","t","a","t","u","s">>>>,
    \* Enrollment.Session_Date__c
    <<<<"E","n","r","o","l","l","m","e","n","t">>,
      <<"S","e","s","s","i","o","n","_","D","a","t","e","_","_","c">>>>,
    \* Opportunity.Title
    <<<<"O","p","p","o","r","t","u","n","i","t","y">>,
      <<"T","i","t","l","e">>>>,
    \* Enrollment.Date__c
    <<<<"E","n","r","o","l","l","m","e","n","t">>,
      <<"D","a","t","e","_","_","c">>>>
>>

\* the search terms of the calls
Terms == {
    \* 'mail'
    <<"m","a","i","l">>,
    \* 'Email'
    <<"E","m","a","i","l">>,
    \* 'email_address'
    <<"e","m","a","i","l","_","a","d","d","r","e","s","s">>,
    \* 'teacher'
    <<"t","e","a","c","h","e","r">>,
    \* 'Session_Date'
    <<"S","e","s","s","i","o","n","_","D","a","t","e">>,
    \* 'Sttaus'
    <<"S","t","t","a","u","s">>,
    \* ' STATUS '
    <<" ","S","T","A","T","U","S"," ">>,
    \* 'date'
    <<"d","a","t","e">>,
    \* 'xyz'
    <<"x","y","z">>,
    \* ''
    <<>>,
    \* 'Status__c'
    <<"S","t","a","t","u","s","_","_","c">>,
    \* 'title'
    <<"t","i","t","l","e">>,
    \* 'c'
    <<"c">>
}

\* the SQL texts handed to validate_sql_columns; every candidate that is
\* looked up is a single word
SqlQueries == {
    \* SELECT Emial, COUNT FROM Contact
    <<"S","E","L","E","C","T"," ","E","m","i","a","l",","," ","C","O",
    "U","N","T"," ","F","R","O","M"," ","C","o","n","t","a","c","t">>,
    \* select * from Session where Sttaus = 'open'
    <<"s","e","l","e","c","t"," ","*"," ","f","r","o","m"," ","S","e",
    "s","s","i","o","n"," ","w","h","e","r","e"," ","S","t","t","a",
    "u","s"," ","="," ","'","o","p","e","n","'">>,
    \* SELECT 'Max' DESC, Titel FROM Opportunity
    <<"S","E","L","E","C","T"," ","'","M","a","x","'"," ","D","E","S",
    "C",","," ","T","i","t","e","l"," ","F","R","O","M"," ","O","p",
    "p","o","r","t","u","n","i","t","y">>,
    \* SELECT Status FROM Session ORDER BY Count DESC
    <<"S","E","L","E","C","T"," ","S","t","a","t","u","s"," ","F","R",
    "O","M"," ","S","e","s","s","i","o","n"," ","O","R","D","E","R",
    " ","B","Y"," ","backtick","C","o","u","n","t","backtick"," ","D","E","S","C">>,
    \* SELECT Title FROM Opportunity GROUP BY ALL
    <<"S","E","L","E","C","T"," ","T","i","t","l","e"," ","F","R","O",
    "M"," ","O","p","p","o","r","t","u","n","i","t","y"," ","G","R",
    "O","U","P"," ","B","Y"," ","A","L","L">>,
    \* SELECT Email FROM Contact JOIN Account ON Exists = 1
    <<"S","E","L","E","C","T"," ","E","m","a","i","l"," ","F","R","O",
    "M"," ","C","o","n","t","a","c","t"," ","J","O","I","N"," ","A",
    "c","c","o","u","n","t"," ","O","N"," ","E","x","i","s","t","s",
    " ","="," ","1">>,
    \* SELECT mail, xyz FROM Contact WHERE In = 1
    <<"S","E","L","E","C","T"," ","m","a","i","l",","," ","x","y","z",
    " ","F","R","O","M"," ","C","o","n","t","a","c","t"," ","W","H",
    "E","R","E"," ","I","n"," ","="," ","1">>,
    \* SELECT COUNT( * ), 42 FROM Contact / WHERE Contact.Email LIKE 'a%'
    <<"S","E","L","E","C","T"," ","C","O","U","N","T","(","*",")",",",
    " ","4","2"," ","F","R","O","M"," ","C","o","n","t","a","c","t",
    "\n","W","H","E","R","E"," ","C","o","n","t","a","c","t",".","E",
    "m","a","i","l"," ","L","I","K","E"," ","'","a","%","'">>,
    \* SELECT Session.Status, session_date FROM Session GROUP BY Staus
    <<"S","E","L","E","C","T"," ","S","e","s","s","i","o","n",".","S",
    "t","a","t","u","s",","," ","s","e","s","s","i","o","n","_","d",
    "a","t","e"," ","F","R","O","M"," ","S","e","s","s","i","o","n",
    " ","G","R","O","U","P"," ","B","Y"," ","S","t","a","u","s">>,
    \* SELECT Email FROM Contact JOIN Account ON Contact.Id = Account.Id ORDER BY Null
    <<"S","E","L","E","C","T"," ","E","m","a","i","l"," ","F","R","O",
    "M"," ","C","o","n","t","a","c","t"," ","J","O","I","N"," ","A",
    "c","c","o","u","n","t"," ","O","N"," ","C","o","n","t","a","c",
    "t",".","I","d"," ","="," ","A","c","c","o","u","n","t",".","I",
    "d"," ","O","R","D","E","R"," ","B","Y"," ","N","u","l","l">>,
    \* DELETE FROM Contact
    <<"D","E","L","E","T","E"," ","F","R","O","M"," ","C","o","n","t",
    "a","c","t">>,
    \* select  Select  from t where Not Asc <> 2
    <<"s","e","l","e","c","t"," "," ","S","e","l","e","c","t","\t"," ",
    "f","r","o","m"," ","t"," ","w","h","e","r","e"," ","N","o","t",
    " ","A","s","c"," ","<",">"," ","2">>,
    \* SELECT Emial, COUNT FROM Contact JOIN Account ON Exists = 1 WHERE Not = 1 GROUP BY ALL ORDER BY Null
    <<"S","E","L","E","C","T"," ","E","m","i","a","l",","," ","C","O",
    "U","N","T"," ","F","R","O","M"," ","C","o","n","t","a","c","t",
    " ","J","O","I","N"," ","A","c","c","o","u","n","t"," ","O","N",
    " ","E","x","i","s","t","s"," ","="," ","1"," ","W","H","E","R",
    "E"," ","N","o","t"," ","="," ","1"," ","G","R","O","U","P"," ",
    "B","Y"," ","A","L","L"," ","O","R","D","E","R"," ","B","Y"," ",
    "N","u","l","l">>,
    \* SELECT 'Sttaus' FROM Session WHERE "Emial" = 1
    <<"S","E","L","E","C","T"," ","'","S","t","t","a","u","s","'"," ",
    "F","R","O","M"," ","S","e","s","s","i","o","n"," ","W","H","E",
    "R","E"," ","\"","E","m","i","a","l","\""," ","="," ","1">>
}

\* the error messages handed to suggest_column_corrections
ErrorMessages == {
    \* Unknown column 'Sttaus' in 'field list'
    <<"U","n","k","n","o","w","n"," ","c","o","l","u","m","n"," ","'",
    "S","t","t","a","u","s","'"," ","i","n"," ","'","f","i","e","l",
    "d"," ","l","i","s","t","'">>,
    \* Column 'Contact.Emial' doesn't exist
    <<"C","o","l","u","m","n"," ","'","C","o","n","t","a","c","t",".",
    "E","m","i","a","l","'"," ","d","o","e","s","n","'","t"," ","e",
    "x","i","s","t">>,
    \* Invalid column name 'Titel'
    <<"I","n","v","a","l","i","d"," ","c","o","l","u","m","n"," ","n",
    "a","m","e"," ","'","T","i","t","e","l","'">>,
    \* ERROR: column "session_date" does not exist
    <<"E","R","R","O","R",":"," ","c","o","l","u","m","n"," ","\"","s",
    "e","s","s","i","o","n","_","d","a","t","e","\""," ","d","o","e",
    "s"," ","n","o","t"," ","e","x","i","s","t">>,
    \* no such column: Session.Sttaus
    <<"n","o"," ","s","u","c","h"," ","c","o","l","u","m","n",":"," ",
    "S","e","s","s","i","o","n",".","S","t","t","a","u","s">>,
    \* Table 'Sttaus' doesn't exist
    <<"T","a","b","l","e"," ","'","S","t","t","a","u","s","'"," ","d",
    "o","e","s","n","'","t"," ","e","x","i","s","t">>,
    \* Unknown column 'xyz' in 'where clause'; unknown column 'mail' in 'field list'
    <<"U","n","k","n","o","w","n"," ","c","o","l","u","m","n"," ","'",
    "x","y","z","'"," ","i","n"," ","'","w","h","e","r","e"," ","c",
    "l","a","u","s","e","'",";"," ","u","n","k","n","o","w","n"," ",
    "c","o","l","u","m","n"," ","'","m","a","i","l","'"," ","i","n",
    " ","'","f","i","e","l","d"," ","l","i","s","t","'">>,
    \* Unknown column 'Emial' doesn't exist; invalid column name 'Titel'
    <<"U","n","k","n","o","w","n"," ","c","o","l","u","m","n"," ","'",
    "E","m","i","a","l","'"," ","d","o","e","s","n","'","t"," ","e",
    "x","i","s","t",";"," ","i","n","v","a","l","i","d"," ","c","o",
    "l","u","m","n"," ","n","a","m","e"," ","'","T","i","t","e","l",
    "'">>
}

\* the words that the SQL texts and the error messages send to
\* find_column_matches and that are not among Terms
LookupTerms == {
    \* Emial
    <<"E","m","i","a","l">>,
    \* Titel
    <<"T","i","t","e","l">>,
    \* Staus
    <<"S","t","a","u","s">>,
    \* session_date
    <<"s","e","s","s","i","o","n","_","d","a","t","e">>,
    \* Contact.Id
    <<"C","o","n","t","a","c","t",".","I","d">>,
    \* Id
    <<"I","d">>,
    \* statu, statuss, name: tokens of the natural-language queries
    <<"s","t","a","t","u">>,
    <<"s","t","a","t","u","s","s">>,
    <<"n","a","m","e">>
}

\* every string that reaches find_column_matches as its search term
SearchTerms == Terms \cup LookupTerms

\* the candidates of the SQL texts: for every pattern and text the
\* potential columns of the matches of re.findall, computed once (the
\* merge with the empty function makes the table a table of values)
CandidatesTable ==
    [p \in (1..5) \X SqlQueries
        |-> PotentialColumnsOfAll(FindAll(SqlColumnPatterns[p[1]], p[2], 1), 1)]
    @@ <<>>

\* the candidates pattern i captures in the query
CapturedBy(i, sql) ==
    IF <<i, sql>> \in DOMAIN CandidatesTable
    THEN CandidatesTable[<<i, sql>>]
    ELSE PotentialColumnsOfAll(FindAll(SqlColumnPatterns[i], sql, 1), 1)

\* the names of the error messages: for every pattern and message the
\* captures of re.findall, computed once
NamesTable ==
    [p \in (1..5) \X ErrorMessages
        |-> FindAll(ErrorColumnPatterns[p[1]], p[2], 1)]
    @@ <<>>

\* the names pattern i captures in the message
NamesCapturedBy(i, message) ==
    IF <<i, message>> \in DOMAIN NamesTable
    THEN NamesTable[<<i, message>>]
    ELSE FindAll(ErrorColumnPatterns[i], message, 1)

\* the scores of the pool: partial_ratio of every search term against the
\* searchable text of every pool column, computed once
PartialRatioTable ==
    [p \in {<<Strip(Lower(t)),
              CreateSearchableText(ColumnPool[i][2], ColumnPool[i][1])>> :
                t \in SearchTerms, i \in 1..Len(ColumnPool)}
        |-> PartialRatio(p[1], p[2])]
    @@ <<>>

\* scorer=fuzz.partial_ratio
PartialRatioScorer(s1, s2) ==
    IF <<s1, s2>> \in DOMAIN PartialRatioTable
    THEN PartialRatioTable[<<s1, s2>>]
    ELSE PartialRatio(s1, s2)

\* the scores of the pool: WRatio of every search term against every
\* lowercased pool column, computed once
WRatioTable ==
    [p \in {<<Strip(Lower(t)), Lower(ColumnPool[i][2])>> :
                t \in SearchTerms, i \in 1..Len(ColumnPool)}
        |-> WRatio(p[1], p[2])]
    @@ <<>>

\* scorer=fuzz.WRatio
WRatioScorer(s1, s2) ==
    IF <<s1, s2>> \in DOMAIN WRatioTable
    THEN WRatioTable[<<s1, s2>>]
    ELSE WRatio(s1, s2)

-----
(* find_column_matches                                                     *)

\* suggestion = None
None == <<>>

\* suggestion = a string
Some(s) == <<s>>

\* mutant: the suggestion is never filled in
ColumnMatch_NoSuggestion(term, col, score, type, suggestion) ==
    [original_term |-> term,
     matched_column |-> col.column,
     table_name |-> col.table,
     similarity_score |-> score,
     match_type |-> type,
     suggestion |-> None]

\* mutant: the match carries the term lowercased and trimmed
ColumnMatch_NormalisedTerm(term, col, score, type, suggestion) ==
    [original_term |-> Strip(Lower(term)),
     matched_column |-> col.column,
     table_name |-> col.table,
     similarity_score |-> score,
     match_type |-> type,
     suggestion |-> suggestion]

ColumnMatch(term, col, score, type, suggestion) ==
    [original_term |-> term,
     matched_column |-> col.column,
     table_name |-> col.table,
     similarity_score |-> score,
     match_type |-> type,
     suggestion |-> suggestion]

\* any(m.matched_column == col['column'] and m.table_name == col['table']
\*     for m in ms)
AlreadyIn(ms, col) ==
    \E i \in 1..Len(ms) :
        ms[i].matched_column = col.column /\ ms[i].table_name = col.table

\* the elements s[i], from the index from on, with keep[i], in order
RECURSIVE SelectFrom(_, _, _)
SelectFrom(s, keep, from) ==
    IF from > Len(s) THEN <<>>
    ELSE (IF keep[from] THEN <<s[from]>> ELSE <<>>)
         \o SelectFrom(s, keep, from + 1)

\* mutant: an element is placed before the elements of equal key
RECURSIVE SortedIndices_TiesReversed(_, _)
SortedIndices_TiesReversed(key, k) ==
    IF k = 0 THEN <<>>
    ELSE LET front == SortedIndices_TiesReversed(key, k - 1)
             n == Cardinality({i \in 1..Len(front) : key[front[i]] > key[k]})
         IN SubSeq(front, 1, n) \o <<k>> \o SubSeq(front, n + 1, Len(front))

\* list.sort(key=..., reverse=True) and the sort of process.extract: the
\* indices 1..k ordered by key[i] descending, equal keys staying in order
RECURSIVE SortedIndices(_, _)
SortedIndices(key, k) ==
    IF k = 0 THEN <<>>
    ELSE LET front == SortedIndices(key, k - 1)
             n == Cardinality({i \in 1..Len(front) : key[front[i]] >= key[k]})
         IN SubSeq(front, 1, n) \o <<k>> \o SubSeq(front, n + 1, Len(front))

StableSortDesc(s, key) ==
    LET order == SortedIndices(key, Len(s))
    IN [i \in 1..Len(s) |-> s[order[i]]]

\* mutant: the exact phase compares the column name as written
ExactMatches_CaseSensitive(term, catalog) ==
    LET hit == [i \in 1..Len(catalog) |->
                   catalog[i].column = Strip(term)]
        cols == SelectFrom(catalog, hit, 1)
    IN [k \in 1..Len(cols) |->
           ColumnMatch(term, cols[k], Pct(100), "exact", None)]

\* 1. Exact matches (case insensitive)
ExactMatches(term, catalog) ==
    LET search_term_lower == Strip(Lower(term))
        hit == [i \in 1..Len(catalog) |->
                   catalog[i].column_lower = search_term_lower]
        cols == SelectFrom(catalog, hit, 1)
    IN [k \in 1..Len(cols) |->
           ColumnMatch(term, cols[k], Pct(100), "exact", None)]

\* mutant: the alias phase wants the column name to be the canonical term
AliasMatches_WholeName(term, catalog) ==
    LET search_term_lower == Strip(Lower(term))
    IN IF search_term_lower \in DOMAIN alias_to_column
       THEN LET canonical_term == alias_to_column[search_term_lower]
                hit == [i \in 1..Len(catalog) |->
                           catalog[i].column_lower = canonical_term]
                cols == SelectFrom(catalog, hit, 1)
            IN [k \in 1..Len(cols) |->
                   ColumnMatch(term, cols[k], Pct(95), "alias",
                       Some(<<"'">> \o term
                            \o <<"'"," ","m","a","t","c","h","e","d"," ","a","s",
                                 " ","a","l","i","a","s"," ","f","o","r"," ","'">>
                            \o cols[k].column \o <<"'">>))]
       ELSE <<>>

\* 2. Alias matches
AliasMatches(term, catalog) ==
    LET search_term_lower == Strip(Lower(term))
    IN IF search_term_lower \in DOMAIN alias_to_column
       THEN LET canonical_term == alias_to_column[search_term_lower]
                hit == [i \in 1..Len(catalog) |->
                           Contains(catalog[i].column_lower, canonical_term)]
                cols == SelectFrom(catalog, hit, 1)
            IN [k \in 1..Len(cols) |->
                   ColumnMatch(term, cols[k], Pct(95), "alias",
                       Some(<<"'">> \o term
                            \o <<"'"," ","m","a","t","c","h","e","d"," ","a","s",
                                 " ","a","l","i","a","s"," ","f","o","r"," ","'">>
                            \o cols[k].column \o <<"'">>))]
       ELSE <<>>

\* the scorer handed to process.extract
Score(scorer, s1, s2) ==
    IF scorer = "WRatio" THEN WRatioScorer(s1, s2)
    ELSE PartialRatioScorer(s1, s2)

\* process.extract(query, choices, scorer=scorer, limit=limit): the
\* (choice, score, index) triples, best score first, at most limit of them
Extract(query, choices, scorer, limit) ==
    LET scored == [i \in 1..Len(choices) |->
                      <<choices[i], Score(scorer, query, choices[i]), i>>]
        score == [i \in 1..Len(choices) |-> scored[i][2]]
    IN Take(StableSortDesc(scored, score), limit)

\* mutant: the loop over fuzzy_results does not look for duplicates
RECURSIVE FuzzyLoop_KeepsDuplicates(_, _, _, _, _)
FuzzyLoop_KeepsDuplicates(ms, term, catalog, fuzzy_results, i) ==
    IF i > Len(fuzzy_results) THEN ms
    ELSE LET score == fuzzy_results[i][2]
             col == catalog[fuzzy_results[i][3]]
             match_type == IF score >= Pct(exact_threshold)
                           THEN "exact" ELSE "fuzzy"
             m == ColumnMatch(term, col, score, match_type,
                     IF match_type = "fuzzy"
                     THEN Some(<<"D","i","d"," ","y","o","u"," ","m","e","a","n",
                                 " ","'">> \o col.column \o <<"'","?">>)
                     ELSE None)
         IN FuzzyLoop_KeepsDuplicates(
                IF score >= Pct(similarity_threshold)
                THEN Append(ms, m) ELSE ms,
                term, catalog, fuzzy_results, i + 1)

\* 3. the loop over fuzzy_results: direct fuzzy matches on the column names
RECURSIVE FuzzyLoop(_, _, _, _, _)
FuzzyLoop(ms, term, catalog, fuzzy_results, i) ==
    IF i > Len(fuzzy_results) THEN ms
    ELSE LET score == fuzzy_results[i][2]
             col == catalog[fuzzy_results[i][3]]
             match_type == IF score >= Pct(exact_threshold)
                           THEN "exact" ELSE "fuzzy"
             m == ColumnMatch(term, col, score, match_type,
                     IF match_type = "fuzzy"
                     THEN Some(<<"D","i","d"," ","y","o","u"," ","m","e","a","n",
                                 " ","'">> \o col.column \o <<"'","?">>)
                     ELSE None)
         IN FuzzyLoop(IF /\ score >= Pct(similarity_threshold)
                         /\ ~AlreadyIn(ms, col)
                      THEN Append(ms, m) ELSE ms,
                      term, catalog, fuzzy_results, i + 1)

FuzzyMatches(ms, term, catalog, n) ==
    LET search_term_lower == Strip(Lower(term))
        column_names == [i \in 1..Len(catalog) |-> catalog[i].column_lower]
        fuzzy_results == Extract(search_term_lower, column_names, "WRatio", n * 3)
    IN FuzzyLoop(ms, term, catalog, fuzzy_results, 1)

\* mutant: the pass on the searchable text keeps scores from 50 up
RECURSIVE ContextLoop_From50(_, _, _, _, _)
ContextLoop_From50(ms, term, catalog, fuzzy_results2, i) ==
    IF i > Len(fuzzy_results2) THEN ms
    ELSE LET score == fuzzy_results2[i][2]
             col == catalog[fuzzy_results2[i][3]]
             m == ColumnMatch(term, col, score, "fuzzy",
                     Some(<<"D","i","d"," ","y","o","u"," ","m","e","a","n",
                            " ","'">> \o col.column
                          \o <<"'","?"," ","(","c","o","n","t","e","x","t"," ",
                               "m","a","t","c","h",")">>))
         IN ContextLoop_From50(IF /\ score >= Pct(50)
                                  /\ ~AlreadyIn(ms, col)
                               THEN Append(ms, m) ELSE ms,
                               term, catalog, fuzzy_results2, i + 1)

\* 3. the loop over fuzzy_results2: matches on the searchable text
RECURSIVE ContextLoop(_, _, _, _, _)
ContextLoop(ms, term, catalog, fuzzy_results2, i) ==
    IF i > Len(fuzzy_results2) THEN ms
    ELSE LET score == fuzzy_results2[i][2]
             col == catalog[fuzzy_results2[i][3]]
             m == ColumnMatch(term, col, score, "fuzzy",
                     Some(<<"D","i","d"," ","y","o","u"," ","m","e","a","n",
                            " ","'">> \o col.column
                          \o <<"'","?"," ","(","c","o","n","t","e","x","t"," ",
                               "m","a","t","c","h",")">>))
         IN ContextLoop(IF /\ score >= Max(Pct(60), Pct(similarity_threshold - 10))
                           /\ ~AlreadyIn(ms, col)
                        THEN Append(ms, m) ELSE ms,
                        term, catalog, fuzzy_results2, i + 1)

ContextMatches(ms, term, catalog, n) ==
    LET search_term_lower == Strip(Lower(term))
        searchable_texts == [i \in 1..Len(catalog) |->
                                catalog[i].searchable_text]
        fuzzy_results2 == Extract(search_term_lower, searchable_texts,
                                  "partial_ratio", n * 2)
    IN ContextLoop(ms, term, catalog, fuzzy_results2, 1)

\* mutant: the suffixed term is compared without lower()
SuffixMatches_NotLowered(term, catalog) ==
    IF ~EndsWith(term, <<"_","_","c">>)
    THEN LET salesforce_term == term \o <<"_","_","c">>
             hit == [i \in 1..Len(catalog) |->
                        catalog[i].column_lower = salesforce_term]
             cols == SelectFrom(catalog, hit, 1)
         IN [k \in 1..Len(cols) |->
                ColumnMatch(term, cols[k], Pct(90), "pattern",
                    Some(<<"S","a","l","e","s","f","o","r","c","e"," ","c","u",
                           "s","t","o","m"," ","f","i","e","l","d",":"," ","'">>
                         \o term \o <<"'"," ","-",">"," ","'">>
                         \o cols[k].column \o <<"'">>))]
    ELSE <<>>

\* _find_pattern_matches, first loop: the Salesforce custom field suffix
SuffixMatches(term, catalog) ==
    IF ~EndsWith(term, <<"_","_","c">>)
    THEN LET salesforce_term == term \o <<"_","_","c">>
             hit == [i \in 1..Len(catalog) |->
                        catalog[i].column_lower = Lower(salesforce_term)]
             cols == SelectFrom(catalog, hit, 1)
         IN [k \in 1..Len(cols) |->
                ColumnMatch(term, cols[k], Pct(90), "pattern",
                    Some(<<"S","a","l","e","s","f","o","r","c","e"," ","c","u",
                           "s","t","o","m"," ","f","i","e","l","d",":"," ","'">>
                         \o term \o <<"'"," ","-",">"," ","'">>
                         \o cols[k].column \o <<"'">>))]
    ELSE <<>>

\* _find_pattern_matches, second loop: partial word matching, the duplicates
\* looked for in the list of this function only
RECURSIVE PartialWordLoop(_, _, _, _)
PartialWordLoop(ms, term, catalog, i) ==
    IF i > Len(catalog) THEN ms
    ELSE LET col == catalog[i]
             search_lower == Lower(term)
             col_parts == SplitWs(Replace(Replace(col.column_lower,
                                                  <<"_">>, <<" ">>),
                                          <<"_","_","c">>, <<>>))
             hit == \/ \E k \in 1..Len(col_parts) : col_parts[k] = search_lower
                    \/ \E k \in 1..Len(col_parts) :
                          Contains(col_parts[k], search_lower)
             m == ColumnMatch(term, col, Pct(80), "pattern",
                     Some(<<"P","a","r","t","i","a","l"," ","m","a","t","c","h",
                            ":"," ","'">> \o term
                          \o <<"'"," ","f","o","u","n","d"," ","i","n"," ","'">>
                          \o col.column \o <<"'">>))
         IN PartialWordLoop(IF hit /\ ~AlreadyIn(ms, col)
                            THEN Append(ms, m) ELSE ms,
                            term, catalog, i + 1)

\* _find_pattern_matches
FindPatternMatches(term, catalog) ==
    PartialWordLoop(SuffixMatches(term, catalog), term, catalog, 1)

\* mutant: the sort without reverse=True
SortMatches_Ascending(ms) ==
    LET negated_score == [i \in 1..Len(ms) |-> 0 - ms[i].similarity_score]
    IN StableSortDesc(ms, negated_score)

\* matches.sort(key=lambda x: x.similarity_score, reverse=True)
SortMatches(ms) ==
    LET similarity_score == [i \in 1..Len(ms) |-> ms[i].similarity_score]
    IN StableSortDesc(ms, similarity_score)

\* mutant: one element too many
TopN_OneMore(ms, n) == Take(ms, n + 1)

\* matches[:top_n] for top_n >= 0
TopN(ms, n) == Take(ms, n)

\* the one element of a set of one element; binding a list as the element
\* of such a set computes it once
The(S) == CHOOSE x \in S : TRUE

\* 3. if len(matches) < top_n: the two fuzzy passes, the second one only if
\* the first has left room
FuzzyPhases(ms, term, catalog, n) ==
    The({IF Len(m3a) < n THEN ContextMatches(m3a, term, catalog, n) ELSE m3a :
            m3a \in {FuzzyMatches(ms, term, catalog, n)}})

\* find_column_matches as one call, for the callers of the matcher
FindColumnMatches(term, schema, n) ==
    The({The({The({The({TopN(SortMatches(m4), n) :
        m4 \in {IF Len(m3) < n
                 THEN m3 \o FindPatternMatches(term, catalog) ELSE m3}}) :
        m3 \in {IF Len(m2) < n
                 THEN FuzzyPhases(m2, term, catalog, n) ELSE m2}}) :
        m2 \in {ExactMatches(term, catalog) \o AliasMatches(term, catalog)}}) :
        catalog \in {AllColumns(schema)}})

-----------------------------------------------------------------------------
(* The inputs of the calls                                                 *)

\* the tables of the pool entries I, each once, in pool order
RECURSIVE TablesOf(_, _, _)
TablesOf(I, i, seen) ==
    IF i > Len(ColumnPool) THEN <<>>
    ELSE IF i \in I /\ ColumnPool[i][1] \notin seen
         THEN <<ColumnPool[i][1]>> \o TablesOf(I, i + 1, seen \cup {ColumnPool[i][1]})
         ELSE TablesOf(I, i + 1, seen)

\* one column-info record of the schema map
ColInfo(name) == [column |-> name, type |-> "varchar"]

\* the schema map holding the pool entries I: <<table, <<column infos>>>> in
\* the order of the dict
SchemaOf(I) ==
    LET tables == TablesOf(I, 1, {})
        inTable(t) == LET mine == [i \in 1..Len(ColumnPool) |->
                                      i \in I /\ ColumnPool[i][1] = t]
                          idx == SelectFrom([i \in 1..Len(ColumnPool) |-> i], mine, 1)
                      IN [k \in 1..Len(idx) |-> ColInfo(ColumnPool[idx[k]][2])]
    IN [k \in 1..Len(tables) |-> <<tables[k], inTable(tables[k])>>]

Schemas ==
    {SchemaOf(I) : I \in {J \in SUBSET (1..Len(ColumnPool)) : Cardinality(J) <= MaxCols}}

\* a column-info record without the 'column' key
BadColInfo == [type |-> "varchar"]

\* the schema maps whose first column record lacks the 'column' key
MalformedSchemas ==
    {[s EXCEPT ![1][2][1] = BadColInfo] : s \in Schemas \ {<<>>}}

TopNs == 0..MaxTopN

-----------------------------------------------------------------------------
(* The calls of find_column_matches, phase by phase                        *)

\* the callers that share the one matcher of the web layer
Threads == {"first", "second"}

\* the locals of a caller that is not in a call
IdleFrame ==
    [pc |-> "idle", search_term |-> <<>>, schema_info |-> <<>>, top_n |-> 0,
     all_columns |-> <<>>, matches |-> <<>>, result |-> <<>>]

Init ==
    /\ pc = "idle"
    /\ column_aliases = ColumnAliases
    /\ alias_to_column = AliasToColumn(ColumnAliases)
    /\ similarity_threshold = 70
    /\ exact_threshold = 90
    /\ search_term = <<>>
    /\ schema_info = <<>>
    /\ top_n = 0
    /\ all_columns = <<>>
    /\ matches = <<>>
    /\ result = <<>>
    /\ sql_query = <<>>
    /\ error_message = <<>>
    /\ pattern = 0
    /\ potential_columns = <<>>
    /\ found_names = <<>>
    /\ valid_columns = {}
    /\ is_valid = TRUE
    /\ suggestions = <<>>
    /\ looked_up = <<>>
    /\ called = FALSE
    /\ frames = [t \in Threads |-> IdleFrame]
    /\ natural_query = <<>>
    /\ enhanced_query = <<>>
    /\ step = "idle"
    /\ generated_sql = <<>>
    /\ validated_sql = <<>>
    /\ validation_suggestions = <<>>
    /\ db_error = <<>>
    /\ error_analysis = <<>>
    /\ executed = <<>>
    /\ steps_run = <<>>
    /\ response = <<>>
    /\ use_sqlite = FALSE
    /\ dpc = "idle"
    /\ statement = <<>>
    /\ conn = "None"
    /\ db_calls = <<>>
    /\ exc = <<>>
    /\ outcome = <<>>

\* mutant: every call lowers the similarity threshold of the matcher
Call_AdaptsThreshold(term, schema, n) ==
    /\ pc = "idle"
    /\ ~CatalogRaises(schema)
    /\ search_term' = term
    /\ schema_info' = schema
    /\ top_n' = n
    /\ all_columns' = AllColumns(schema)
    /\ matches' = <<>>
    /\ result' = <<>>
    /\ pc' = "exact"
    /\ similarity_threshold' = similarity_threshold - 10
    /\ UNCHANGED <<column_aliases, alias_to_column, exact_threshold>>
    /\ UNCHANGED callers
    /\ UNCHANGED <<called, frames>>
    /\ UNCHANGED pipeline

\* the call: matches = [], the catalog is built from the schema map
Call(term, schema, n) ==
    /\ pc = "idle"
    /\ ~CatalogRaises(schema)
    /\ search_term' = term
    /\ schema_info' = schema
    /\ top_n' = n
    /\ all_columns' = AllColumns(schema)
    /\ matches' = <<>>
    /\ result' = <<>>
    /\ pc' = "exact"
    /\ UNCHANGED matcher
    /\ UNCHANGED callers
    /\ UNCHANGED <<called, frames>>
    /\ UNCHANGED pipeline

\* the call with a schema map that the catalog loop cannot read: KeyError
CallRaises(term, schema, n) ==
    /\ pc = "idle"
    /\ CatalogRaises(schema)
    /\ search_term' = term
    /\ schema_info' = schema
    /\ top_n' = n
    /\ pc' = "raised"
    /\ UNCHANGED <<matcher, all_columns, matches, result>>
    /\ UNCHANGED callers
    /\ UNCHANGED <<called, frames>>
    /\ UNCHANGED pipeline

\* mutant: the exact phase stops once top_n matches are found
ExactPhase_StopsAtTopN ==
    /\ pc = "exact"
    /\ matches' = Take(matches \o ExactMatches(search_term, all_columns), top_n)
    /\ pc' = "alias"
    /\ UNCHANGED <<matcher, search_term, schema_info, top_n, all_columns, result>>
    /\ UNCHANGED callers
    /\ UNCHANGED <<called, frames>>
    /\ UNCHANGED pipeline

ExactPhase ==
    /\ pc = "exact"
    /\ matches' = matches \o ExactMatches(search_term, all_columns)
    /\ pc' = "alias"
    /\ UNCHANGED <<matcher, search_term, schema_info, top_n, all_columns, result>>
    /\ UNCHANGED callers
    /\ UNCHANGED <<called, frames>>
    /\ UNCHANGED pipeline

AliasPhase ==
    /\ pc = "alias"
    /\ matches' = matches \o AliasMatches(search_term, all_columns)
    /\ pc' = "fuzzy"
    /\ UNCHANGED <<matcher, search_term, schema_info, top_n, all_columns, result>>
    /\ UNCHANGED callers
    /\ UNCHANGED <<called, frames>>
    /\ UNCHANGED pipeline

\* if len(matches) < top_n: the fuzzy pass on the column names
FuzzyPhase ==
    /\ pc = "fuzzy"
    /\ Len(matches) < top_n
    /\ matches' = FuzzyMatches(matches, search_term, all_columns, top_n)
    /\ pc' = "context"
    /\ UNCHANGED <<matcher, search_term, schema_info, top_n, all_columns, result>>
    /\ UNCHANGED callers
    /\ UNCHANGED <<called, frames>>
    /\ UNCHANGED pipeline

SkipFuzzy ==
    /\ pc = "fuzzy"
    /\ ~(Len(matches) < top_n)
    /\ pc' = "pattern"
    /\ UNCHANGED <<matcher, search_term, schema_info, top_n, all_columns, matches, result>>
    /\ UNCHANGED callers
    /\ UNCHANGED <<called, frames>>
    /\ UNCHANGED pipeline

\* if len(matches) < top_n: the fuzzy pass on the searchable text
ContextPhase ==
    /\ pc = "context"
    /\ Len(matches) < top_n
    /\ matches' = ContextMatches(matches, search_term, all_columns, top_n)
    /\ pc' = "pattern"
    /\ UNCHANGED <<matcher, search_term, schema_info, top_n, all_columns, result>>
    /\ UNCHANGED callers
    /\ UNCHANGED <<called, frames>>
    /\ UNCHANGED pipeline

SkipContext ==
    /\ pc = "context"
    /\ ~(Len(matches) < top_n)
    /\ pc' = "pattern"
    /\ UNCHANGED <<matcher, search_term, schema_info, top_n, all_columns, matches, result>>
    /\ UNCHANGED callers
    /\ UNCHANGED <<called, frames>>
    /\ UNCHANGED pipeline

\* if len(matches) < top_n: matches.extend(pattern_matches)
PatternPhase ==
    /\ pc = "pattern"
    /\ Len(matches) < top_n
    /\ matches' = matches \o FindPatternMatches(search_term, all_columns)
    /\ pc' = "sort"
    /\ UNCHANGED <<matcher, search_term, schema_info, top_n, all_columns, result>>
    /\ UNCHANGED callers
    /\ UNCHANGED <<called, frames>>
    /\ UNCHANGED pipeline

SkipPattern ==
    /\ pc = "pattern"
    /\ ~(Len(matches) < top_n)
    /\ pc' = "sort"
    /\ UNCHANGED <<matcher, search_term, schema_info, top_n, all_columns, matches, result>>
    /\ UNCHANGED callers
    /\ UNCHANGED <<called, frames>>
    /\ UNCHANGED pipeline

\* matches.sort(...); return matches[:top_n]
SortAndReturn ==
    /\ pc = "sort"
    /\ matches' = SortMatches(matches)
    /\ result' = TopN(matches', top_n)
    /\ pc' = "done"
    /\ UNCHANGED <<matcher, search_term, schema_info, top_n, all_columns>>
    /\ UNCHANGED callers
    /\ UNCHANGED <<called, frames>>
    /\ UNCHANGED pipeline

\* the caller drops the result; the locals of the call are gone
Forget ==
    /\ pc \in {"done", "raised"}
    /\ pc' = "idle"
    /\ search_term' = <<>>
    /\ schema_info' = <<>>
    /\ top_n' = 0
    /\ all_columns' = <<>>
    /\ matches' = <<>>
    /\ result' = <<>>
    /\ UNCHANGED matcher
    /\ UNCHANGED callers
    /\ called' = TRUE
    /\ UNCHANGED frames
    /\ UNCHANGED pipeline

Next ==
    \/ /\ pc = "idle"
       /\ \E term \in Terms, schema \in Schemas \cup MalformedSchemas,
             n \in TopNs : Call(term, schema, n)
    \/ /\ pc = "idle"
       /\ \E term \in Terms, schema \in Schemas \cup MalformedSchemas,
             n \in TopNs : CallRaises(term, schema, n)
    \/ ExactPhase
    \/ AliasPhase
    \/ FuzzyPhase
    \/ SkipFuzzy
    \/ ContextPhase
    \/ SkipContext
    \/ PatternPhase
    \/ SkipPattern
    \/ SortAndReturn
    \/ Forget

Spec == Init /\ [][Next]_vars

-----------------------------------------------------------------------------
(* The calls of validate_sql_columns, candidate by candidate               *)

\* the call: suggestions = [], is_valid = True, valid_columns built
ValidateCall(sql, schema) ==
    /\ pc = "idle"
    /\ ~CatalogRaises(schema)
    /\ sql_query' = sql
    /\ schema_info' = schema
    /\ suggestions' = <<>>
    /\ is_valid' = TRUE
    /\ valid_columns' = ValidColumns(schema)
    /\ pattern' = 1
    /\ potential_columns' = <<>>
    /\ looked_up' = <<>>
    /\ pc' = "v_pattern"
    /\ UNCHANGED <<matcher, finder, error_message, found_names>>
    /\ UNCHANGED <<called, frames>>
    /\ UNCHANGED pipeline

\* the call with a schema map that the loop building valid_columns cannot
\* read: KeyError before any pattern is tried
ValidateRaises(sql, schema) ==
    /\ pc = "idle"
    /\ CatalogRaises(schema)
    /\ sql_query' = sql
    /\ schema_info' = schema
    /\ suggestions' = <<>>
    /\ is_valid' = TRUE
    /\ pc' = "v_raised"
    /\ UNCHANGED <<matcher, finder, error_message, found_names,
                   valid_columns, pattern, potential_columns, looked_up>>
    /\ UNCHANGED <<called, frames>>
    /\ UNCHANGED pipeline

\* for pattern in column_patterns: the candidates of its matches
FindCandidates ==
    /\ pc = "v_pattern"
    /\ pattern <= Len(SqlColumnPatterns)
    /\ potential_columns' = CapturedBy(pattern, sql_query)
    /\ pc' = "v_column"
    /\ UNCHANGED <<matcher, finder, schema_info, sql_query, suggestions,
                   is_valid, valid_columns, pattern, looked_up,
                   error_message, found_names>>
    /\ UNCHANGED <<called, frames>>
    /\ UNCHANGED pipeline

\* if self._is_sql_keyword_or_function(clean_col): continue
SkipKeyword ==
    /\ pc = "v_column"
    /\ potential_columns # <<>>
    /\ \E clean_col \in {CleanCol(Head(potential_columns))} :
          IsSqlKeywordOrFunction(clean_col)
    /\ potential_columns' = Tail(potential_columns)
    /\ UNCHANGED <<pc, matcher, finder, schema_info, sql_query, suggestions,
                   is_valid, valid_columns, pattern, looked_up,
                   error_message, found_names>>
    /\ UNCHANGED <<called, frames>>
    /\ UNCHANGED pipeline

\* clean_col.lower() is in valid_columns
KnownColumn ==
    /\ pc = "v_column"
    /\ potential_columns # <<>>
    /\ \E clean_col \in {CleanCol(Head(potential_columns))} :
          /\ ~IsSqlKeywordOrFunction(clean_col)
          /\ Lower(clean_col) \in valid_columns
    /\ potential_columns' = Tail(potential_columns)
    /\ UNCHANGED <<pc, matcher, finder, schema_info, sql_query, suggestions,
                   is_valid, valid_columns, pattern, looked_up,
                   error_message, found_names>>
    /\ UNCHANGED <<called, frames>>
    /\ UNCHANGED pipeline

\* mutant: a best match of 90 or more does not flag the query
LookupColumn_FlagsBelow90 ==
    /\ pc = "v_column"
    /\ potential_columns # <<>>
    /\ \E clean_col \in {CleanCol(Head(potential_columns))} :
          /\ ~IsSqlKeywordOrFunction(clean_col)
          /\ Lower(clean_col) \notin valid_columns
          /\ looked_up' = Append(looked_up, [col |-> Head(potential_columns),
                                             clean_col |-> clean_col])
          /\ \E column_matches \in
                   {FindColumnMatches(clean_col, schema_info, 3)} :
                IF /\ column_matches # <<>>
                   /\ column_matches[1].similarity_score < Pct(90)
                THEN /\ is_valid' = FALSE
                     /\ suggestions' =
                           suggestions \o IssueBlock(clean_col, column_matches)
                ELSE UNCHANGED <<is_valid, suggestions>>
    /\ potential_columns' = Tail(potential_columns)
    /\ UNCHANGED <<pc, matcher, finder, schema_info, sql_query,
                   valid_columns, pattern, error_message, found_names>>
    /\ UNCHANGED <<called, frames>>
    /\ UNCHANGED pipeline

\* mutant: a lookup without any match flags the query too
LookupColumn_FlagsNoMatch ==
    /\ pc = "v_column"
    /\ potential_columns # <<>>
    /\ \E clean_col \in {CleanCol(Head(potential_columns))} :
          /\ ~IsSqlKeywordOrFunction(clean_col)
          /\ Lower(clean_col) \notin valid_columns
          /\ looked_up' = Append(looked_up, [col |-> Head(potential_columns),
                                             clean_col |-> clean_col])
          /\ \E column_matches \in
                   {FindColumnMatches(clean_col, schema_info, 3)} :
                IF \/ column_matches = <<>>
                   \/ column_matches[1].similarity_score < Pct(95)
                THEN /\ is_valid' = FALSE
                     /\ suggestions' =
                           suggestions \o IssueBlock(clean_col, column_matches)
                ELSE UNCHANGED <<is_valid, suggestions>>
    /\ potential_columns' = Tail(potential_columns)
    /\ UNCHANGED <<pc, matcher, finder, schema_info, sql_query,
                   valid_columns, pattern, error_message, found_names>>
    /\ UNCHANGED <<called, frames>>
    /\ UNCHANGED pipeline

\* the candidate is looked up with find_column_matches(clean_col, ..., 3);
\* a best match below 95 flags the query and appends a block
LookupColumn ==
    /\ pc = "v_column"
    /\ potential_columns # <<>>
    /\ \E clean_col \in {CleanCol(Head(potential_columns))} :
          /\ ~IsSqlKeywordOrFunction(clean_col)
          /\ Lower(clean_col) \notin valid_columns
          /\ looked_up' = Append(looked_up, [col |-> Head(potential_columns),
                                             clean_col |-> clean_col])
          /\ \E column_matches \in
                   {FindColumnMatches(clean_col, schema_info, 3)} :
                IF /\ column_matches # <<>>
                   /\ column_matches[1].similarity_score < Pct(95)
                THEN /\ is_valid' = FALSE
                     /\ suggestions' =
                           suggestions \o IssueBlock(clean_col, column_matches)
                ELSE UNCHANGED <<is_valid, suggestions>>
    /\ potential_columns' = Tail(potential_columns)
    /\ UNCHANGED <<pc, matcher, finder, schema_info, sql_query,
                   valid_columns, pattern, error_message, found_names>>
    /\ UNCHANGED <<called, frames>>
    /\ UNCHANGED pipeline

\* the candidates of the pattern are done
NextPattern ==
    /\ pc = "v_column"
    /\ potential_columns = <<>>
    /\ pattern' = pattern + 1
    /\ pc' = "v_pattern"
    /\ UNCHANGED <<matcher, finder, schema_info, sql_query, suggestions,
                   is_valid, valid_columns, potential_columns, looked_up,
                   error_message, found_names>>
    /\ UNCHANGED <<called, frames>>
    /\ UNCHANGED pipeline

\* return is_valid, suggestions
ValidateReturn ==
    /\ pc = "v_pattern"
    /\ pattern > Len(SqlColumnPatterns)
    /\ pc' = "v_done"
    /\ UNCHANGED <<matcher, finder, schema_info, sql_query, suggestions,
                   is_valid, valid_columns, pattern, potential_columns,
                   looked_up, error_message, found_names>>
    /\ UNCHANGED <<called, frames>>
    /\ UNCHANGED pipeline

\* the caller has taken (is_valid, suggestions)
ValidateForget ==
    /\ pc \in {"v_done", "v_raised"}
    /\ pc' = "idle"
    /\ sql_query' = <<>>
    /\ schema_info' = <<>>
    /\ suggestions' = <<>>
    /\ is_valid' = TRUE
    /\ valid_columns' = {}
    /\ pattern' = 0
    /\ looked_up' = <<>>
    /\ UNCHANGED <<matcher, finder, potential_columns, error_message,
                   found_names>>
    /\ called' = TRUE
    /\ UNCHANGED frames
    /\ UNCHANGED pipeline

NextValidate ==
    \/ /\ pc = "idle"
       /\ \E sql \in SqlQueries, schema \in Schemas \cup MalformedSchemas :
             ValidateCall(sql, schema)
    \/ /\ pc = "idle"
       /\ \E sql \in SqlQueries, schema \in Schemas \cup MalformedSchemas :
             ValidateRaises(sql, schema)
    \/ FindCandidates
    \/ SkipKeyword
    \/ KnownColumn
    \/ LookupColumn
    \/ NextPattern
    \/ ValidateReturn
    \/ ValidateForget

SpecValidate == Init /\ [][NextValidate]_vars

-----------------------------------------------------------------------------
(* The calls of suggest_column_corrections, name by name                   *)

\* the call: suggestions = []
SuggestCall(message, schema) ==
    /\ pc = "idle"
    /\ error_message' = message
    /\ schema_info' = schema
    /\ suggestions' = <<>>
    /\ pattern' = 1
    /\ found_names' = <<>>
    /\ pc' = "s_pattern"
    /\ UNCHANGED <<matcher, finder, sql_query, is_valid, valid_columns,
                   potential_columns, looked_up>>
    /\ UNCHANGED <<called, frames>>
    /\ UNCHANGED pipeline

\* matches = re.findall(pattern, error_message, re.IGNORECASE)
FindColumnNames ==
    /\ pc = "s_pattern"
    /\ pattern <= Len(ErrorColumnPatterns)
    /\ found_names' = NamesCapturedBy(pattern, error_message)
    /\ pc' = "s_name"
    /\ UNCHANGED <<matcher, finder, schema_info, error_message, suggestions,
                   pattern, sql_query, is_valid, valid_columns,
                   potential_columns, looked_up>>
    /\ UNCHANGED <<called, frames>>
    /\ UNCHANGED pipeline

\* for column_name in matches: the table prefix removed, the name looked up
\* with top_n = 3, a block appended if there are matches
SuggestForName ==
    /\ pc = "s_name"
    /\ found_names # <<>>
    /\ ~CatalogRaises(schema_info)
    /\ LET column_name == Head(found_names)
           clean_column == AfterLast(column_name, ".")
       IN \E column_matches \in
                {FindColumnMatches(clean_column, schema_info, 3)} :
             suggestions' =
                IF column_matches # <<>>
                THEN suggestions \o SuggestionBlock(column_name, column_matches)
                ELSE suggestions
    /\ found_names' = Tail(found_names)
    /\ UNCHANGED <<pc, matcher, finder, schema_info, error_message, pattern,
                   sql_query, is_valid, valid_columns, potential_columns,
                   looked_up>>
    /\ UNCHANGED <<called, frames>>
    /\ UNCHANGED pipeline

\* the lookup of a captured name with a schema map that the catalog loop
\* of find_column_matches cannot read: KeyError
SuggestRaises ==
    /\ pc = "s_name"
    /\ found_names # <<>>
    /\ CatalogRaises(schema_info)
    /\ pc' = "s_raised"
    /\ UNCHANGED <<matcher, finder, schema_info, error_message, pattern,
                   suggestions, found_names, sql_query, is_valid,
                   valid_columns, potential_columns, looked_up>>
    /\ UNCHANGED <<called, frames>>
    /\ UNCHANGED pipeline

\* the names of the pattern are done
NextErrorPattern ==
    /\ pc = "s_name"
    /\ found_names = <<>>
    /\ pattern' = pattern + 1
    /\ pc' = "s_pattern"
    /\ UNCHANGED <<matcher, finder, schema_info, error_message, suggestions,
                   found_names, sql_query, is_valid, valid_columns,
                   potential_columns, looked_up>>
    /\ UNCHANGED <<called, frames>>
    /\ UNCHANGED pipeline

\* return suggestions
SuggestReturn ==
    /\ pc = "s_pattern"
    /\ pattern > Len(ErrorColumnPatterns)
    /\ pc' = "s_done"
    /\ UNCHANGED <<matcher, finder, schema_info, error_message, suggestions,
                   pattern, found_names, sql_query, is_valid, valid_columns,
                   potential_columns, looked_up>>
    /\ UNCHANGED <<called, frames>>
    /\ UNCHANGED pipeline

\* the caller has taken the suggestions
SuggestForget ==
    /\ pc \in {"s_done", "s_raised"}
    /\ pc' = "idle"
    /\ error_message' = <<>>
    /\ schema_info' = <<>>
    /\ suggestions' = <<>>
    /\ pattern' = 0
    /\ found_names' = <<>>
    /\ UNCHANGED <<matcher, finder, sql_query, is_valid,
                   valid_columns, potential_columns, looked_up>>
    /\ called' = TRUE
    /\ UNCHANGED frames
    /\ UNCHANGED pipeline

NextSuggest ==
    \/ /\ pc = "idle"
       /\ \E message \in ErrorMessages, schema \in Schemas \cup MalformedSchemas :
             SuggestCall(message, schema)
    \/ FindColumnNames
    \/ SuggestForName
    \/ SuggestRaises
    \/ NextErrorPattern
    \/ SuggestReturn
    \/ SuggestForget

SpecSuggest == Init /\ [][NextSuggest]_vars

-----------------------------------------------------------------------------
(* Properties of find_column_matches                                       *)

SameColumn(m1, m2) ==
    m1.table_name = m2.table_name /\ m1.matched_column = m2.matched_column

\* the catalog entries with the column name and table of the match m
IsMatchOf(m, col) == m.table_name = col.table /\ m.matched_column = col.column

\* C1: the sequence returned by find_column_matches never holds two entries
\* with the same (table_name, matched_column) pair
C1_NoDuplicatePairs ==
    pc = "done" =>
        \A i, j \in 1..Len(result) : i # j => ~SameColumn(result[i], result[j])

\* C2: for every term, schema map and top_n = k >= 0 the returned sequence
\* has at most k elements (none for k = 0), however many were accumulated
C2_TopNBound ==
    pc = "done" => Len(result) <= top_n

\* more matches were accumulated than top_n allows, and top_n were returned
C2_Witness ==
    /\ pc = "done"
    /\ top_n >= 1
    /\ Len(matches) > top_n
    /\ Len(result) = top_n

\* C3: the returned sequence is non-increasing in similarity_score
C3_ScoresNonIncreasing ==
    pc = "done" =>
        \A i \in 1..(Len(result) - 1) :
            result[i].similarity_score >= result[i + 1].similarity_score

\* a pattern match, found last, is returned ahead of a fuzzy match with a
\* lower score
C3_Witness ==
    /\ pc = "done"
    /\ Len(result) >= 2
    /\ result[1].match_type = "pattern"
    /\ result[2].match_type = "fuzzy"
    /\ result[1].similarity_score > result[2].similarity_score

\* C4: when the term equals, case-insensitively, the name of a column of the
\* schema and top_n >= 1, the first returned match has score 100.0 and type
\* 'exact'
C4_ExactPrecedence ==
    (/\ pc = "done"
     /\ top_n >= 1
     /\ \E k \in 1..Len(all_columns) :
           all_columns[k].column_lower = Lower(search_term))
    => /\ Len(result) >= 1
       /\ result[1].similarity_score = Pct(100)
       /\ result[1].match_type = "exact"

\* the term names a column, and alias, fuzzy or pattern candidates were
\* accumulated next to the exact match
C4_Witness ==
    /\ pc = "done"
    /\ top_n >= 1
    /\ \E k \in 1..Len(all_columns) :
          all_columns[k].column_lower = Lower(search_term)
    /\ \E i \in 1..Len(matches) : matches[i].match_type = "alias"
    /\ \E i \in 1..Len(matches) : matches[i].match_type = "fuzzy"
    /\ result[1].match_type = "exact"

\* C5: term 'mail' against the schema {Contact: [Email]} with the default
\* top_n returns exactly one match: Contact.Email, 'alias', 95.0
C5_MailOneAliasMatch ==
    (/\ pc = "done"
     /\ search_term = <<"m","a","i","l">>
     /\ schema_info = SchemaOf({1})
     /\ top_n = 5)
    => /\ Len(result) = 1
       /\ result[1].matched_column = <<"E","m","a","i","l">>
       /\ result[1].table_name = <<"C","o","n","t","a","c","t">>
       /\ result[1].match_type = "alias"
       /\ result[1].similarity_score = Pct(95)

\* the term of the call is a configured alias
IsAlias == Strip(Lower(search_term)) \in DOMAIN alias_to_column

\* the canonical term of the alias
Canonical == alias_to_column[Strip(Lower(search_term))]

\* the catalog entry col is returned as an alias match with score 95.0
ReturnedAsAlias(col) ==
    \E i \in 1..Len(result) :
        /\ IsMatchOf(result[i], col)
        /\ result[i].match_type = "alias"
        /\ result[i].similarity_score = Pct(95)

\* C6 as stated: for an alias term, every column whose lowercased name
\* contains the canonical term is returned as an alias match with score 95.0
\* when the schema has at most top_n columns
C6_AliasReturned ==
    (pc = "done" /\ IsAlias /\ Len(all_columns) <= top_n)
    => \A k \in 1..Len(all_columns) :
          Contains(all_columns[k].column_lower, Canonical)
          => ReturnedAsAlias(all_columns[k])

\* some column is both the term itself and a holder of the canonical term
ExactAndAlias ==
    \E k \in 1..Len(all_columns) :
        /\ all_columns[k].column_lower = Strip(Lower(search_term))
        /\ Contains(all_columns[k].column_lower, Canonical)

\* C6, amended: the alias phase emits an alias match with score 95.0 for
\* every column whose lowercased name contains the canonical term; when the
\* schema has at most top_n columns and no column is both an exact match of
\* the term and a holder of the canonical term, each of them is returned so
C6_AliasEmittedAndReturned ==
    (pc \in {"fuzzy", "context", "pattern", "sort", "done"} /\ IsAlias)
    => \A k \in 1..Len(all_columns) :
          Contains(all_columns[k].column_lower, Canonical)
          => /\ \E i \in 1..Len(matches) :
                   /\ IsMatchOf(matches[i], all_columns[k])
                   /\ matches[i].match_type = "alias"
                   /\ matches[i].similarity_score = Pct(95)
             /\ (pc = "done" /\ Len(all_columns) <= top_n /\ ~ExactAndAlias)
                => ReturnedAsAlias(all_columns[k])

\* 'teacher' is returned as an alias match of Instructor_Name__c, next to
\* other columns of the schema
C6_Witness ==
    /\ pc = "done"
    /\ search_term = <<"t","e","a","c","h","e","r">>
    /\ Len(all_columns) >= 2
    /\ Len(all_columns) <= top_n
    /\ \E k \in 1..Len(all_columns) :
          /\ all_columns[k].column
               = <<"I","n","s","t","r","u","c","t","o","r","_","N","a","m","e","_","_","c">>
          /\ ReturnedAsAlias(all_columns[k])

\* the column col is the term with the custom field suffix
HasSuffixOfTerm(col) ==
    col.column_lower = Lower(search_term) \o <<"_","_","c">>

\* a pattern match with score 90.0 for col is among the accumulated matches
SuffixMatchEmitted(col) ==
    \E i \in 1..Len(matches) :
        /\ IsMatchOf(matches[i], col)
        /\ matches[i].match_type = "pattern"
        /\ matches[i].similarity_score = Pct(90)

\* the matches of the exact, alias and fuzzy phases: the pattern phase alone
\* emits the type 'pattern'
EarlierMatches == {i \in 1..Len(matches) : matches[i].match_type # "pattern"}

\* C7 as stated: a column named term + '__c' gets a pattern match with score
\* 90.0 whenever no match of the exact, alias and fuzzy phases scores above
\* 90.0, whatever the number of lower-scoring matches (top_n >= 1)
C7_SuffixWheneverNoHigher ==
    (pc = "done" /\ top_n >= 1) =>
        \A k \in 1..Len(all_columns) :
            (/\ HasSuffixOfTerm(all_columns[k])
             /\ \A i \in EarlierMatches : matches[i].similarity_score <= Pct(90))
            => SuffixMatchEmitted(all_columns[k])

\* C7, amended: a column named term + '__c' gets a pattern match with score
\* 90.0 whenever the term does not itself end in '__c' and the exact, alias
\* and fuzzy phases have accumulated fewer than top_n matches
C7_SuffixWhenPatternPhaseRuns ==
    pc = "done" =>
        \A k \in 1..Len(all_columns) :
            (/\ HasSuffixOfTerm(all_columns[k])
             /\ ~EndsWith(search_term, <<"_","_","c">>)
             /\ Cardinality(EarlierMatches) < top_n)
            => SuffixMatchEmitted(all_columns[k])

\* the suffix match is emitted after the fuzzy phases accumulated
\* lower-scoring matches
C7_Witness ==
    /\ pc = "done"
    /\ EarlierMatches # {}
    /\ \A i \in EarlierMatches : matches[i].similarity_score < Pct(90)
    /\ \E k \in 1..Len(all_columns) :
          /\ HasSuffixOfTerm(all_columns[k])
          /\ SuffixMatchEmitted(all_columns[k])

\* C8: with the empty schema map the call returns the empty sequence and
\* does not raise; a call in which no phase matches returns the empty
\* sequence; a call raises only on a schema map it cannot read
C8_EmptySchemaEmptyResult ==
    /\ (pc \in {"done", "raised"} /\ schema_info = <<>>)
           => (pc = "done" /\ result = <<>>)
    /\ (pc = "done" /\ matches = <<>>) => result = <<>>
    /\ pc = "raised" => CatalogRaises(schema_info)

\* a call with the empty schema map and room for matches has returned
C8_Witness ==
    /\ pc = "done"
    /\ schema_info = <<>>
    /\ top_n >= 1
    /\ search_term # <<>>
    /\ result = <<>>

-----------------------------------------------------------------------------
(* Properties of validate_sql_columns                                      *)

\* the token of a candidate: trimmed, the ASC/DESC suffix and the
\* surrounding quote characters stripped, compared without case
TokenOf(col) == Strip(Lower(CleanCol(col)))

\* the candidates the five patterns capture in the query
CapturedIn(sql) ==
    UNION {{CapturedBy(i, sql)[k] : k \in 1..Len(CapturedBy(i, sql))} :
              i \in 1..Len(SqlColumnPatterns)}

\* the places of the keywords among the candidates pattern i captures
KeywordsCapturedBy(i, sql) ==
    {k \in 1..Len(CapturedBy(i, sql)) :
        TokenOf(CapturedBy(i, sql)[k]) \in SqlKeywords}

IssueHeaderPrefix ==
    <<"P","o","t","e","n","t","i","a","l"," ","i","s","s","u","e"," ","w","i","t","h"," ","c","o","l","u","m","n"," ","'">>

\* the names the headers of the suggestion blocks carry
NamedInBlocks ==
    {SubSeq(suggestions[i], Len(IssueHeaderPrefix) + 1, Len(suggestions[i]) - 2) :
        i \in {j \in 1..Len(suggestions) :
                  StartsWith(suggestions[j], IssueHeaderPrefix)}}

\* C9: a candidate whose token is a member of the SQL-keyword set is never
\* looked up with find_column_matches and never named in a suggestion
\* block, whatever position of the query captured it
C9_KeywordNeverAColumn ==
    /\ \A i \in 1..Len(looked_up) :
          /\ TokenOf(looked_up[i].col) \notin SqlKeywords
          /\ Strip(Lower(looked_up[i].clean_col)) \notin SqlKeywords
    /\ \A name \in NamedInBlocks : Strip(Lower(name)) \notin SqlKeywords

\* the validation of a query has returned in which each of the SELECT,
\* WHERE, ORDER BY, GROUP BY and JOIN...ON patterns captured a keyword
\* written in upper or mixed case, and in which another candidate was
\* looked up and named in a suggestion block
C9_Witness ==
    /\ pc = "v_done"
    /\ \A i \in 1..Len(SqlColumnPatterns) :
          KeywordsCapturedBy(i, sql_query) # {}
    /\ \E c \in CapturedIn(sql_query) :
          TokenOf(c) \in SqlKeywords /\ c \notin SqlKeywords
    /\ looked_up # <<>>
    /\ NamedInBlocks # {}
    /\ ~is_valid

-----------------------------------------------------------------------------
(* Properties of suggest_column_corrections                                *)

UnknownSttaus ==
    <<"U","n","k","n","o","w","n"," ","c","o","l","u","m","n"," ","'","S","t","t","a","u","s","'"," ","i","n"," ","'","f","i","e","l","d"," ","l","i","s","t","'">>

SchemaHas(table, column) ==
    \E k \in 1..Len(schema_info) :
        /\ schema_info[k][1] = table
        /\ \E j \in 1..Len(schema_info[k][2]) :
              schema_info[k][2][j].column = column

\* the call of the claim has returned
SttausCallReturned ==
    /\ pc = "s_done"
    /\ error_message = UnknownSttaus
    /\ SchemaHas(<<"S","e","s","s","i","o","n">>, <<"S","t","a","t","u","s">>)

\* a line carrying a similarity annotation that reports Session.Status
ReportsSessionStatus(line) ==
    /\ Contains(line, <<"S","e","s","s","i","o","n",".","S","t","a","t","u","s">>)
    /\ Contains(line, <<"(","s","i","m","i","l","a","r","i","t","y",":"," ">>)

\* C10: for the message Unknown column 'Sttaus' in 'field list' and a
\* schema with Session.Status the returned sequence is non-empty, its first
\* line references Status and a similarity-annotated line reports
\* Session.Status
C10_FirstLineReferencesStatus ==
    SttausCallReturned =>
        /\ suggestions # <<>>
        /\ Contains(Lower(suggestions[1]), <<"s","t","a","t","u","s">>)
        /\ \E i \in 1..Len(suggestions) : ReportsSessionStatus(suggestions[i])

\* C10, amended: the returned sequence is non-empty and its first line is
\* the header naming the unresolved column Sttaus as the message wrote it;
\* with a schema of at most three columns a later line reports
\* Session.Status with its similarity of 83.3%
C10_HeaderNamesUnresolvedColumn ==
    SttausCallReturned =>
        /\ suggestions # <<>>
        /\ suggestions[1] =
              <<"C","o","l","u","m","n"," ","'","S","t","t","a","u","s","'"," ","n","o","t"," ","f","o","u","n","d","."," ","D","i","d"," ","y","o","u"," ","m","e","a","n",":">>
        /\ Len(AllColumns(schema_info)) <= 3 =>
              \E i \in 2..Len(suggestions) :
                  suggestions[i] =
                     <<" "," ","bullet"," ","S","e","s","s","i","o","n",".","S","t","a","t","u","s"," ","(","s","i","m","i","l","a","r","i","t","y",":"," ","8","3",".","3","%",")">>

\* the call has returned for a schema with a second Status column: the
\* header names Sttaus, the first annotated line reports Session.Status
C10_Witness ==
    /\ SttausCallReturned
    /\ SchemaHas(<<"A","c","c","o","u","n","t">>, <<"S","t","a","t","u","s">>)
    /\ Len(suggestions) = 4
    /\ ~Contains(Lower(suggestions[1]), <<"s","t","a","t","u","s">>)
    /\ ReportsSessionStatus(suggestions[2])
    /\ suggestions[4] = <<>>

-----------------------------------------------------------------------------
(* The output of suggest_column_corrections                                *)

\* the identifiers the phrasings capture in the message, pattern by pattern
RECURSIVE CapturedNames(_, _)
CapturedNames(message, i) ==
    IF i > Len(ErrorColumnPatterns) THEN <<>>
    ELSE NamesCapturedBy(i, message)
         \o CapturedNames(message, i + 1)

\* the lookup of a captured identifier: the text after the table qualifier
LookupOf(name, schema) == FindColumnMatches(AfterLast(name, "."), schema, 3)

\* 'table.column (similarity: NN.N%)' for the match m, behind the bullet
AnnotatedLine(m) ==
    <<" "," ","bullet"," ">> \o m.table_name \o <<".">> \o m.matched_column
    \o <<" ","(","s","i","m","i","l","a","r","i","t","y",":"," ">> \o Format1f(m.similarity_score) \o <<"%",")">>

\* header, one line for each of the first three matches, separator
ExpectedBlock(name, found) ==
    << <<"C","o","l","u","m","n"," ","'">> \o name \o <<"'"," ","n","o","t"," ","f","o","u","n","d","."," ","D","i","d"," ","y","o","u"," ","m","e","a","n",":">> >>
    \o [k \in 1..Min(3, Len(found)) |-> AnnotatedLine(found[k])]
    \o << <<>> >>

\* one block for each identifier whose lookup is non-empty, in order
RECURSIVE ExpectedBlocks(_, _, _)
ExpectedBlocks(names, schema, i) ==
    IF i > Len(names) THEN <<>>
    ELSE The({(IF found = <<>> THEN <<>> ELSE ExpectedBlock(names[i], found))
              : found \in {LookupOf(names[i], schema)}})
         \o ExpectedBlocks(names, schema, i + 1)

\* NN.N: digits, a point, one digit
IsOneDecimal(s) ==
    /\ Len(s) >= 3
    /\ s[Len(s) - 1] = "."
    /\ \A k \in 1..Len(s) : k # Len(s) - 1 => s[k] \in DigitChars

\* the line is a bullet, table.column of the schema and '(similarity: NN.N%)'
IsAnnotatedLine(line, schema) ==
    \E c \in 1..Len(AllColumns(schema)) :
        LET col == AllColumns(schema)[c]
            head == <<" "," ","bullet"," ">> \o col.table \o <<".">> \o col.column \o <<" ","(","s","i","m","i","l","a","r","i","t","y",":"," ">>
        IN /\ StartsWith(line, head)
           /\ EndsWith(line, <<"%",")">>)
           /\ IsOneDecimal(SubSeq(line, Len(head) + 1, Len(line) - 2))

IsHeaderLine(line) ==
    /\ StartsWith(line, <<"C","o","l","u","m","n"," ","'">>)
    /\ EndsWith(line, <<"'"," ","n","o","t"," ","f","o","u","n","d","."," ","D","i","d"," ","y","o","u"," ","m","e","a","n",":">>)

\* the places of the header lines and of the separators in the output
HeaderPlaces == {k \in 1..Len(suggestions) : IsHeaderLine(suggestions[k])}

SeparatorPlaces == {k \in 1..Len(suggestions) : suggestions[k] = <<>>}

\* C11: the output of suggest_column_corrections is the concatenation, in
\* the order of capture, of one block for each captured identifier whose
\* lookup with top_n = 3 is non-empty; a block is a header naming the
\* identifier, one to three annotated lines and an empty line; a message
\* without a capture, or whose identifiers have no match, gives the empty
\* sequence
C11_OutputIsTheBlocks ==
    pc = "s_done" =>
        /\ suggestions =
              ExpectedBlocks(CapturedNames(error_message, 1), schema_info, 1)
        /\ \A k \in 1..Len(suggestions) :
              \/ k \in HeaderPlaces
              \/ k \in SeparatorPlaces
              \/ IsAnnotatedLine(suggestions[k], schema_info)
        /\ \A h \in HeaderPlaces :
              \E s \in SeparatorPlaces :
                  /\ s - h \in 2..4
                  /\ \A k \in (h + 1)..(s - 1) :
                        IsAnnotatedLine(suggestions[k], schema_info)
        /\ Cardinality(HeaderPlaces) = Cardinality(SeparatorPlaces)
        /\ (suggestions # <<>> =>
               /\ 1 \in HeaderPlaces
               /\ Len(suggestions) \in SeparatorPlaces)
        /\ (\A i \in 1..Len(CapturedNames(error_message, 1)) :
               LookupOf(CapturedNames(error_message, 1)[i], schema_info) = <<>>)
              => suggestions = <<>>

\* the call has returned two blocks for a message with two captured
\* identifiers, the first block with two annotated lines or more
C11_Witness ==
    /\ pc = "s_done"
    /\ Len(CapturedNames(error_message, 1)) >= 2
    /\ Cardinality(HeaderPlaces) = 2
    /\ \E s \in SeparatorPlaces : s >= 4 /\ s < Len(suggestions)

-----------------------------------------------------------------------------
(* The order of the matches find_column_matches returns                    *)

\* the place of the match m in the list ms, the order of discovery
PlaceIn(ms, m) == CHOOSE k \in 1..Len(ms) : ms[k] = m

\* the place in the catalog of the column of the match m
CatalogPlace(m) ==
    CHOOSE k \in 1..Len(all_columns) : IsMatchOf(m, all_columns[k])

\* res holds the n best of ms, the better score first and, with equal
\* scores, the earlier of ms first; what is cut is no better and, with an
\* equal score, later in ms than everything kept
StablyOrdered(ms, res, n) ==
    /\ Len(res) = Min(n, Len(ms))
    /\ \A i \in 1..Len(res) : \E k \in 1..Len(ms) : ms[k] = res[i]
    /\ \A i, j \in 1..Len(res) :
          i < j =>
             \/ res[i].similarity_score > res[j].similarity_score
             \/ /\ res[i].similarity_score = res[j].similarity_score
                /\ PlaceIn(ms, res[i]) < PlaceIn(ms, res[j])
    /\ \A k \in 1..Len(ms) :
          (\A i \in 1..Len(res) : PlaceIn(ms, res[i]) # k) =>
             \A i \in 1..Len(res) :
                \/ ms[k].similarity_score < res[i].similarity_score
                \/ /\ ms[k].similarity_score = res[i].similarity_score
                   /\ k > PlaceIn(ms, res[i])

\* a phase leaves what was discovered in place and adds behind it; what it
\* adds with equal scores is in the order of the catalog
DiscoveredBehind(ms, after) ==
    /\ Len(after) >= Len(ms)
    /\ SubSeq(after, 1, Len(ms)) = ms
    /\ \A i, j \in (Len(ms) + 1)..Len(after) :
          (i < j /\ after[i].similarity_score = after[j].similarity_score)
             => CatalogPlace(after[i]) < CatalogPlace(after[j])

\* C12: the final order is a stable sort by score, descending: matches of
\* equal score are returned in the order of their discovery (each phase adds
\* behind the earlier phases, in catalog order among equal scores), and
\* the truncation to top_n keeps the earliest discovered of equal scores
C12_StableSortByScore ==
    [][/\ pc = "sort" => StablyOrdered(matches, result', top_n)
       /\ pc \in {"exact", "alias", "fuzzy", "context", "pattern"}
             => DiscoveredBehind(matches, matches')
       /\ (pc = "exact" /\ pc' # "exact") => pc' = "alias"
       /\ (pc = "alias" /\ pc' # "alias") => pc' = "fuzzy"
       /\ (pc = "fuzzy" /\ pc' # "fuzzy") => pc' \in {"context", "pattern"}
       /\ (pc = "context" /\ pc' # "context") => pc' = "pattern"
       /\ (pc = "pattern" /\ pc' # "pattern") => pc' = "sort"]_vars

\* a call has returned top_n matches and has cut a match whose score is
\* the score of the last one returned; two matches of equal score from
\* different phases are returned
C12_Witness ==
    /\ pc = "done"
    /\ top_n >= 2
    /\ Len(result) = top_n
    /\ Len(matches) > top_n
    /\ matches[top_n + 1].similarity_score = result[top_n].similarity_score
    /\ \E i, j \in 1..Len(result) :
          /\ i < j
          /\ result[i].similarity_score = result[j].similarity_score
          /\ result[i].match_type # result[j].match_type

-----------------------------------------------------------------------------
(* The calls of the three operations, one after the other                  *)

\* top_n of the calls: 3 as in the two operations above, and the largest
CallTopNs == {3, MaxTopN}

NextCalls ==
    \/ /\ pc = "idle"
       /\ \E term \in Terms, schema \in Schemas \cup MalformedSchemas,
             n \in CallTopNs : Call(term, schema, n)
    \/ /\ pc = "idle"
       /\ \E term \in Terms, schema \in Schemas \cup MalformedSchemas,
             n \in CallTopNs : CallRaises(term, schema, n)
    \/ ExactPhase
    \/ AliasPhase
    \/ FuzzyPhase
    \/ SkipFuzzy
    \/ ContextPhase
    \/ SkipContext
    \/ PatternPhase
    \/ SkipPattern
    \/ SortAndReturn
    \/ Forget
    \/ NextValidate
    \/ NextSuggest

SpecCalls == Init /\ [][NextCalls]_vars

\* the locals of the three operations are those of a caller not in a call
NothingKept ==
    /\ search_term = <<>> /\ top_n = 0
    /\ all_columns = <<>> /\ matches = <<>> /\ result = <<>>
    /\ schema_info = <<>>
    /\ sql_query = <<>> /\ error_message = <<>>
    /\ potential_columns = <<>> /\ found_names = <<>>
    /\ valid_columns = {} /\ suggestions = <<>>

\* C13: the three operations leave the alias tables and the thresholds of
\* the matcher as the construction set them and do not change the schema
\* map of the running call; between calls no catalog and no result is kept;
\* whatever calls came before, find_column_matches returns the value that
\* its arguments alone determine
C13_CallsKeepNoState ==
    /\ [][/\ matcher' = matcher
          /\ (pc # "idle" /\ pc' # "idle") => schema_info' = schema_info]_vars
    /\ [](/\ pc = "idle" => NothingKept
          /\ pc = "done" =>
                result = FindColumnMatches(search_term, schema_info, top_n))

\* after earlier calls, a call of find_column_matches has returned matches
\* found through the alias table and through the fuzzy thresholds
C13_Witness ==
    /\ called
    /\ pc = "done"
    /\ \E i \in 1..Len(result) : result[i].match_type = "alias"
    /\ \E i \in 1..Len(result) : result[i].match_type = "fuzzy"

-----------------------------------------------------------------------------
(* Calls of find_column_matches side by side on the one matcher; a step    *)
(* of a caller is one phase of its call                                    *)

\* the arguments of the calls that run side by side
ThreadTerms == {<<"m","a","i","l">>, <<"S","t","t","a","u","s">>, <<"d","a","t","e">>}

ThreadSchemas == {SchemaOf({1, 2, 3}), SchemaOf({3, 6, 9}), SchemaOf({4, 9})}

ThreadTopNs == {1, 3}

\* matches = []; the catalog of the call is built
ThreadCall(t, term, schema, n) ==
    /\ frames[t].pc = "idle"
    /\ ~CatalogRaises(schema)
    /\ frames' = [frames EXCEPT ![t] =
                     [pc |-> "exact", search_term |-> term,
                      schema_info |-> schema, top_n |-> n,
                      all_columns |-> AllColumns(schema),
                      matches |-> <<>>, result |-> <<>>]]
    /\ UNCHANGED <<pc, matcher, schema_info, finder, callers, called>>
    /\ UNCHANGED pipeline

\* mutant: the list of matches is one list of the matcher, not a local
ThreadExact_SharedList(t) ==
    /\ frames[t].pc = "exact"
    /\ \E u \in Threads \ {t} :
          frames' = [frames EXCEPT
                        ![t].matches = frames[u].matches
                                       \o ExactMatches(frames[t].search_term,
                                                       frames[t].all_columns),
                        ![t].pc = "alias"]
    /\ UNCHANGED <<pc, matcher, schema_info, finder, callers, called>>
    /\ UNCHANGED pipeline

\* 1. exact matches
ThreadExact(t) ==
    /\ frames[t].pc = "exact"
    /\ frames' = [frames EXCEPT
                     ![t].matches = @ \o ExactMatches(frames[t].search_term,
                                                      frames[t].all_columns),
                     ![t].pc = "alias"]
    /\ UNCHANGED <<pc, matcher, schema_info, finder, callers, called>>
    /\ UNCHANGED pipeline

\* 2. alias matches
ThreadAlias(t) ==
    /\ frames[t].pc = "alias"
    /\ frames' = [frames EXCEPT
                     ![t].matches = @ \o AliasMatches(frames[t].search_term,
                                                      frames[t].all_columns),
                     ![t].pc = "fuzzy"]
    /\ UNCHANGED <<pc, matcher, schema_info, finder, callers, called>>
    /\ UNCHANGED pipeline

\* 3. if len(matches) < top_n: the fuzzy pass on the column names
ThreadFuzzy(t) ==
    /\ frames[t].pc = "fuzzy"
    /\ frames' = [frames EXCEPT
                     ![t].matches =
                         IF Len(@) < frames[t].top_n
                         THEN FuzzyMatches(@, frames[t].search_term,
                                  frames[t].all_columns, frames[t].top_n)
                         ELSE @,
                     ![t].pc = "context"]
    /\ UNCHANGED <<pc, matcher, schema_info, finder, callers, called>>
    /\ UNCHANGED pipeline

\* if len(matches) < top_n: the fuzzy pass on the searchable text
ThreadContext(t) ==
    /\ frames[t].pc = "context"
    /\ frames' = [frames EXCEPT
                     ![t].matches =
                         IF Len(@) < frames[t].top_n
                         THEN ContextMatches(@, frames[t].search_term,
                                  frames[t].all_columns, frames[t].top_n)
                         ELSE @,
                     ![t].pc = "pattern"]
    /\ UNCHANGED <<pc, matcher, schema_info, finder, callers, called>>
    /\ UNCHANGED pipeline

\* 4. if len(matches) < top_n: the pattern matches
ThreadPattern(t) ==
    /\ frames[t].pc = "pattern"
    /\ frames' = [frames EXCEPT
                     ![t].matches =
                         IF Len(@) < frames[t].top_n
                         THEN @ \o FindPatternMatches(frames[t].search_term,
                                       frames[t].all_columns)
                         ELSE @,
                     ![t].pc = "sort"]
    /\ UNCHANGED <<pc, matcher, schema_info, finder, callers, called>>
    /\ UNCHANGED pipeline

\* matches.sort(...); return matches[:top_n]
ThreadSortAndReturn(t) ==
    /\ frames[t].pc = "sort"
    /\ frames' = [frames EXCEPT
                     ![t].matches = SortMatches(@),
                     ![t].result = TopN(SortMatches(frames[t].matches),
                                        frames[t].top_n),
                     ![t].pc = "done"]
    /\ UNCHANGED <<pc, matcher, schema_info, finder, callers, called>>
    /\ UNCHANGED pipeline

\* the caller has taken the result; the locals of the call are gone
ThreadForget(t) ==
    /\ frames[t].pc = "done"
    /\ frames' = [frames EXCEPT ![t] = IdleFrame]
    /\ UNCHANGED <<pc, matcher, schema_info, finder, callers, called>>
    /\ UNCHANGED pipeline

NextThreads ==
    \/ \E t \in Threads, term \in ThreadTerms, schema \in ThreadSchemas,
          n \in ThreadTopNs : ThreadCall(t, term, schema, n)
    \/ \E t \in Threads : ThreadExact(t)
    \/ \E t \in Threads : ThreadAlias(t)
    \/ \E t \in Threads : ThreadFuzzy(t)
    \/ \E t \in Threads : ThreadContext(t)
    \/ \E t \in Threads : ThreadPattern(t)
    \/ \E t \in Threads : ThreadSortAndReturn(t)
    \/ \E t \in Threads : ThreadForget(t)

SpecThreads == Init /\ [][NextThreads]_vars

\* the callers whose locals the step has changed
Stepped == {t \in Threads : frames'[t] # frames[t]}

\* C14: when callers run find_column_matches side by side on the one
\* matcher, a step of a call changes the locals of that call only and
\* nothing of the matcher, and every call returns what the same call
\* returns when it runs alone
C14_InterleavedAsAlone ==
    /\ [][Cardinality(Stepped) <= 1 /\ matcher' = matcher]_vars
    /\ [](\A t \in Threads :
             frames[t].pc = "done" =>
                frames[t].result =
                   FindColumnMatches(frames[t].search_term,
                                     frames[t].schema_info, frames[t].top_n))

\* one caller has its result while the call of the other one, with other
\* arguments, is between two phases with matches accumulated
C14_Witness ==
    \E t, u \in Threads :
        /\ frames[t].pc = "done"
        /\ frames[t].result # <<>>
        /\ frames[u].pc \in {"fuzzy", "context", "pattern", "sort"}
        /\ frames[u].matches # <<>>
        /\ frames[u].search_term # frames[t].search_term
        /\ frames[u].schema_info # frames[t].schema_info

-----------------------------------------------------------------------------
(* The operations on a malformed schema map                                *)

\* the schema map holds a column record without the 'column' key
IsMalformed(schema) ==
    \E i \in 1..Len(schema) : \E k \in 1..Len(schema[i][2]) :
        "column" \notin DOMAIN schema[i][2][k]

\* C15: find_column_matches, validate_sql_columns and
\* suggest_column_corrections called with a malformed schema map fail with
\* an error, whatever the term, the SQL text or the error message: none of
\* them returns a result
C15_MalformedSchemaFails ==
    IsMalformed(schema_info) => pc \notin {"done", "v_done", "s_done"}

-----------------------------------------------------------------------------
(* The fields of the matches find_column_matches returns                   *)

\* the schema map has the table and, in it, the column
InSchema(schema, table, column) ==
    \E i \in 1..Len(schema) :
        /\ schema[i][1] = table
        /\ \E k \in 1..Len(schema[i][2]) : schema[i][2][k].column = column

\* C16: every match find_column_matches returns has a score from 0 to 100,
\* one of the types exact, alias, fuzzy and pattern, the term of the call
\* as it was passed, neither lowercased nor trimmed, and a table and a
\* column of the schema map of the call
C16_MatchFieldsWellFormed ==
    pc = "done" =>
        \A i \in 1..Len(result) :
            /\ result[i].similarity_score >= Pct(0)
            /\ result[i].similarity_score <= Pct(100)
            /\ result[i].match_type \in {"exact", "alias", "fuzzy", "pattern"}
            /\ result[i].original_term = search_term
            /\ InSchema(schema_info, result[i].table_name,
                        result[i].matched_column)

\* a call with a term that lower() and strip() change has returned
\* matches for columns of two tables, each with the term as passed
C16_Witness ==
    /\ pc = "done"
    /\ Strip(search_term) # search_term
    /\ Lower(search_term) # search_term
    /\ \E i, j \in 1..Len(result) :
          /\ result[i].table_name # result[j].table_name
          /\ result[i].original_term = search_term
          /\ result[j].original_term = search_term

-----------------------------------------------------------------------------
(* The lookups of validate_sql_columns                                     *)

\* the token is, without regard to case, a column name of the schema map
\* or a table name, a point and a column name of that table
IsKnownName(token, schema) ==
    \E i \in 1..Len(schema) : \E k \in 1..Len(schema[i][2]) :
        \/ Lower(token) = Lower(schema[i][2][k].column)
        \/ Lower(token) = Lower(schema[i][1]) \o <<".">>
                          \o Lower(schema[i][2][k].column)

\* the block for the token: the header, a line for each match, an empty line
ExpectedIssueBlock(token, found) ==
    << <<"P","o","t","e","n","t","i","a","l"," ","i","s","s","u","e"," ","w","i","t","h"," ","c","o","l","u","m","n"," ","'">> \o token \o <<"'",":">> >>
    \o [k \in 1..Len(found) |->
           <<" "," ","bullet"," ","D","i","d"," ","y","o","u"," ","m","e","a","n"," ">> \o found[k].table_name \o <<".">>
           \o found[k].matched_column \o <<"?"," ","(","s","i","m","i","l","a","r","i","t","y",":"," ">>
           \o Format1f(found[k].similarity_score) \o <<"%",")">>]
    \o << <<>> >>

\* the candidate the step is about survives the filter of keywords,
\* function calls and literals
Survives(token) == ~IsSqlKeywordOrFunction(token)

\* what the step does with the token of the candidate it takes
CandidateStep(token, found) ==
    IF ~Survives(token) \/ IsKnownName(token, schema_info)
    THEN UNCHANGED <<looked_up, is_valid, suggestions>>
    ELSE /\ Len(looked_up') = Len(looked_up) + 1
         /\ looked_up'[Len(looked_up')].clean_col = token
         /\ Len(found) <= 3
         /\ IF found # <<>> /\ found[1].similarity_score < Pct(95)
            THEN /\ ~is_valid'
                 /\ suggestions' =
                       suggestions \o ExpectedIssueBlock(token, found)
            ELSE UNCHANGED <<is_valid, suggestions>>

\* the candidates of the query, pattern by pattern
RECURSIVE CandidatesOf(_, _)
CandidatesOf(sql, i) ==
    IF i > Len(SqlColumnPatterns) THEN <<>>
    ELSE CapturedBy(i, sql) \o CandidatesOf(sql, i + 1)

\* the tokens of the candidates of the query that survive
SurvivingTokens(sql) ==
    {token \in {CleanCol(candidates[k]) :
                   candidates \in {CandidatesOf(sql, 1)},
                   k \in 1..Len(CandidatesOf(sql, 1))} : Survives(token)}

\* every candidate of the query that survives is a known name
AllKnown(sql, schema) ==
    \A token \in SurvivingTokens(sql) : IsKnownName(token, schema)

\* C17: a surviving candidate that is not a column name or a table.column
\* name of the schema map, compared without case, is looked up with
\* find_column_matches and top_n = 3; if the best match scores below 95 the
\* query is flagged invalid and the block for the candidate is appended,
\* and if not, nothing is flagged or appended; a query whose surviving
\* candidates are all known names is returned valid without suggestions
C17_UnknownCandidatesLookedUp ==
    /\ [][(pc = "v_column" /\ potential_columns # <<>>) =>
             \E token \in {CleanCol(Head(potential_columns))} :
                \E found \in {IF Survives(token)
                                  /\ ~IsKnownName(token, schema_info)
                               THEN FindColumnMatches(token, schema_info, 3)
                               ELSE <<>>} :
                   CandidateStep(token, found)]_vars
    /\ [](pc = "v_done" =>
             /\ AllKnown(sql_query, schema_info)
                   => (is_valid /\ suggestions = <<>>)
             /\ is_valid <=> suggestions = <<>>)

\* a query has been returned flagged, with two candidates looked up and a
\* block for each, and with a surviving candidate that is a known name
C17_Witness ==
    /\ pc = "v_done"
    /\ ~is_valid
    /\ Len(looked_up) = 2
    /\ Cardinality(NamedInBlocks) = 2
    /\ \E token \in SurvivingTokens(sql_query) :
          IsKnownName(token, schema_info)

-----------------------------------------------------------------------------
(* The order of the phases of find_column_matches                          *)

\* ms holds a match of the given type and score for the catalog entry
HasMatch(ms, col, type, score) ==
    \E k \in 1..Len(ms) :
        /\ ms[k].matched_column = col.column
        /\ ms[k].table_name = col.table
        /\ ms[k].match_type = type
        /\ ms[k].similarity_score = score

\* every catalog entry whose lowercase name is the normalised term has
\* its exact match
ExactScanned ==
    \A i \in 1..Len(all_columns) :
        all_columns[i].column_lower = Strip(Lower(search_term))
            => HasMatch(matches, all_columns[i], "exact", Pct(100))

\* every catalog entry whose lowercase name contains the canonical name
\* of the alias has its alias match
AliasScanned ==
    Strip(Lower(search_term)) \in DOMAIN alias_to_column
        => \A i \in 1..Len(all_columns) :
              Contains(all_columns[i].column_lower,
                       alias_to_column[Strip(Lower(search_term))])
                  => HasMatch(matches, all_columns[i], "alias", Pct(95))

\* the number of matches of the first two phases
EarlyCount(ms) ==
    Cardinality({k \in 1..Len(ms) :
                    \/ /\ ms[k].match_type = "exact"
                       /\ ms[k].similarity_score = Pct(100)
                    \/ /\ ms[k].match_type = "alias"
                       /\ ms[k].similarity_score = Pct(95)})

\* C18: the phases run in the order exact, alias, fuzzy pass a, fuzzy pass
\* b, pattern; the exact and the alias phase go over the whole catalog
\* whatever top_n is; fuzzy pass a adds matches only if fewer than top_n
\* matches were there after the alias phase, fuzzy pass b is reached and
\* adds matches only if pass a ran and left fewer than top_n, and the
\* pattern phase adds matches only if fewer than top_n were there after the
\* fuzzy phase.
C18_PhasesInOrder ==
    /\ [][/\ pc' = "exact" => pc = "idle"
          /\ pc = "exact" => pc' = "alias"
          /\ pc = "alias" => pc' = "fuzzy"
          /\ pc = "fuzzy" => /\ pc' \in {"context", "pattern"}
                             /\ pc' = "context" <=> Len(matches) < top_n
                             /\ Len(matches) >= top_n => matches' = matches
          /\ pc' = "context" => pc = "fuzzy"
          /\ pc = "context" => /\ pc' = "pattern"
                               /\ Len(matches) >= top_n => matches' = matches
          /\ pc = "pattern" => /\ pc' = "sort"
                               /\ Len(matches) >= top_n => matches' = matches
          /\ pc' = "sort" => pc = "pattern"]_vars
    /\ [](pc \in {"alias", "fuzzy", "context", "pattern", "sort", "done"}
             => ExactScanned)
    /\ [](pc \in {"fuzzy", "context", "pattern", "sort", "done"}
             => AliasScanned)

\* the first two phases have found more than top_n >= 1 matches, exact and
\* alias ones, and the sort is reached with nothing added by a later phase
C18_Witness ==
    /\ pc = "sort"
    /\ top_n >= 1
    /\ EarlyCount(matches) > top_n
    /\ EarlyCount(matches) = Len(matches)
    /\ \E i, j \in 1..Len(matches) :
          matches[i].match_type = "exact" /\ matches[j].match_type = "alias"

-----------------------------------------------------------------------------
(* Fuzzy pass a of find_column_matches                                     *)

\* the match m is what fuzzy pass a emits for the catalog entry col:
\* the score of the name against the normalised term, unchanged, at least
\* 70, and the type that the score gives
EmittedFor(m, col) ==
    LET score == Score("WRatio", Strip(Lower(search_term)), col.column_lower)
    IN /\ m.matched_column = col.column
       /\ m.table_name = col.table
       /\ m.similarity_score = score
       /\ score >= Pct(70)
       /\ m.match_type = (IF score >= Pct(90) THEN "exact" ELSE "fuzzy")

\* C19: fuzzy pass a emits a match for a candidate only if the similarity
\* of its name is at least 70 and its (column, table) pair is not yet among
\* the accumulated matches; an emitted match is typed 'exact' if its score
\* is at least 90 and 'fuzzy' otherwise, and carries the score of the
\* scorer unchanged.
C19_FuzzyPassFilters ==
    [][pc = "fuzzy" /\ pc' = "context"
          => /\ Len(matches') >= Len(matches)
             /\ SubSeq(matches', 1, Len(matches)) = matches
             /\ \A k \in (Len(matches) + 1)..Len(matches') :
                   /\ \E i \in 1..Len(all_columns) :
                         /\ EmittedFor(matches'[k], all_columns[i])
                         /\ ~AlreadyIn(SubSeq(matches', 1, k - 1),
                                       all_columns[i])
                   /\ matches'[k].original_term = search_term]_vars

\* fuzzy pass a has run behind an exact match: the candidate of that match
\* scores at least 70 and was left out as already present, and another
\* candidate was emitted, typed 'exact' with a score from 90 and below 100
C19_Witness ==
    /\ pc = "context"
    /\ \E a, e \in 1..Len(matches) :
          /\ matches[a].match_type = "exact"
          /\ matches[a].similarity_score = Pct(100)
          /\ matches[e].match_type = "exact"
          /\ matches[e].similarity_score >= Pct(90)
          /\ matches[e].similarity_score < Pct(100)
          /\ \E i \in 1..Len(all_columns) :
                /\ matches[a].matched_column = all_columns[i].column
                /\ matches[a].table_name = all_columns[i].table
                /\ Score("WRatio", Strip(Lower(search_term)),
                         all_columns[i].column_lower) >= Pct(70)
                /\ Cardinality({k \in 1..Len(matches) :
                       /\ matches[k].matched_column = all_columns[i].column
                       /\ matches[k].table_name = all_columns[i].table}) = 1

-----------------------------------------------------------------------------
(* The partial-word step of the pattern phase                              *)

\* the parts of a lowercase column name as the description of the step
\* gives them: the '__c' suffix stripped, underscores replaced by spaces,
\* split at whitespace
StatedParts(column_lower) ==
    LET stem == IF EndsWith(column_lower, <<"_","_","c">>)
                THEN SubSeq(column_lower, 1, Len(column_lower) - 3)
                ELSE column_lower
    IN SplitWs(Replace(stem, <<"_">>, <<" ">>))

\* the lowercased term equals, or is a substring of, one of the parts
InStatedParts(term, column_lower) ==
    \E k \in 1..Len(StatedParts(column_lower)) :
        \/ StatedParts(column_lower)[k] = Lower(term)
        \/ Contains(StatedParts(column_lower)[k], Lower(term))

\* the matches behind the first n of ms hold a score-80.0 'pattern' match
\* for the catalog entry
PartialWordEmitted(ms, n, col) ==
    \E k \in (n + 1)..Len(ms) :
        /\ ms[k].matched_column = col.column
        /\ ms[k].table_name = col.table
        /\ ms[k].match_type = "pattern"
        /\ ms[k].similarity_score = Pct(80)

\* C20: the partial-word step of the pattern phase emits a score-80.0
\* 'pattern' match for a column exactly when the lowercased term equals, or
\* is a substring of, one of the parts of the column's lowercased name,
\* the parts being those left once the '__c' suffix is stripped and
\* underscores are replaced by spaces; Session_Date__c has the parts
\* 'session' and 'date' only, the suffix gives no part of its own.
C20_PartialWordExactlyStatedParts ==
    [][pc = "pattern" /\ Len(matches) < top_n
          => \A i \in 1..Len(all_columns) :
                PartialWordEmitted(matches', Len(matches), all_columns[i])
                    <=> InStatedParts(search_term,
                                      all_columns[i].column_lower)]_vars

-----------------------------------------------------------------------------
(* Quoted string literals among the candidates                             *)

\* the candidate, as captured and trimmed, is a quoted string literal
IsQuotedLiteral(col) ==
    /\ Len(col) >= 2
    /\ \/ StartsWith(col, <<"'">>) /\ EndsWith(col, <<"'">>)
       \/ StartsWith(col, <<"\"">>) /\ EndsWith(col, <<"\"">>)

\* C21: a candidate of validate_sql_columns that is a quoted string literal
\* is rejected by the keyword/function/literal predicate: the step that
\* handles it is no lookup with find_column_matches and leaves the flag
\* and the suggestions as they are.
C21_QuotedLiteralRejected ==
    [][(/\ pc = "v_column"
        /\ potential_columns # <<>>
        /\ IsQuotedLiteral(Strip(Head(potential_columns))))
          => /\ looked_up' = looked_up
             /\ is_valid' = is_valid
             /\ suggestions' = suggestions]_vars

-----------------------------------------------------------------------------
(* The suggestion of a match                                               *)

\* the match has no suggestion exactly if it is typed 'exact', and a
\* suggestion that is there is a non-empty string
SuggestionFitsType(m) ==
    /\ m.suggestion = None <=> m.match_type = "exact"
    /\ m.suggestion # None => Len(m.suggestion[1]) > 0

\* C23: in every result of find_column_matches a match has no suggestion
\* (None) if and only if its match_type is 'exact'; every alias, fuzzy and
\* pattern match carries a non-empty suggestion string.
C23_SuggestionIffNotExact ==
    /\ \A k \in 1..Len(matches) : SuggestionFitsType(matches[k])
    /\ pc = "done" => \A k \in 1..Len(result) : SuggestionFitsType(result[k])

\* a result holds a match typed 'exact' by the fuzzy pass (score below
\* 100) without a suggestion, and an alias or pattern match with one
C23_Witness ==
    /\ pc = "done"
    /\ \E e, p \in 1..Len(result) :
          /\ result[e].match_type = "exact"
          /\ result[e].similarity_score < Pct(100)
          /\ result[e].suggestion = None
          /\ result[p].match_type \in {"alias", "pattern"}
          /\ result[p].suggestion # None
    /\ \E f \in 1..Len(matches) : matches[f].match_type = "fuzzy"

-----------------------------------------------------------------------------
(* Lookups of validate_sql_columns that do not flag the query              *)

\* the lookup of the token finds nothing, or a best match of 95 or more
Confident(found) ==
    found = <<>> \/ found[1].similarity_score >= Pct(95)

\* C25: in validate_sql_columns a token is flagged only on a low-confidence
\* match: the lookup of a surviving token that is not a known column and
\* that returns no candidate at all, or a top candidate of 95 or more (a
\* pure alias hit at exactly 95.0 for one), does not set the query invalid
\* and adds no suggestion line; the flag is false if and only if the
\* suggestion list is non-empty.
C25_FlagOnlyLowConfidence ==
    /\ [][(pc = "v_column" /\ looked_up' # looked_up) =>
             \E found \in {FindColumnMatches(
                              looked_up'[Len(looked_up')].clean_col,
                              schema_info, 3)} :
                Confident(found) => UNCHANGED <<is_valid, suggestions>>]_vars
    /\ [](pc \in {"v_pattern", "v_column", "v_done"}
             => (~is_valid <=> suggestions # <<>>))

\* a query has been returned valid and without suggestions although two
\* of its tokens were looked up: one has no candidate at all, the other
\* has an alias match of exactly 95.0 on top
C25_Witness ==
    /\ pc = "v_done"
    /\ is_valid
    /\ suggestions = <<>>
    /\ \E a, b \in 1..Len(looked_up) :
          /\ FindColumnMatches(looked_up[a].clean_col, schema_info, 3) = <<>>
          /\ \E found \in {FindColumnMatches(looked_up[b].clean_col,
                                             schema_info, 3)} :
                /\ found # <<>>
                /\ found[1].match_type = "alias"
                /\ found[1].similarity_score = Pct(95)

-----------------------------------------------------------------------------
(* The type of a match and its score                                       *)

\* the score is one that the type of the match allows
ScoreFitsType(m) ==
    /\ m.match_type \in {"exact", "alias", "fuzzy", "pattern"}
    /\ m.match_type = "alias" => m.similarity_score = Pct(95)
    /\ m.match_type = "pattern" => m.similarity_score \in {Pct(90), Pct(80)}
    /\ m.match_type = "exact" => /\ m.similarity_score >= Pct(90)
                                 /\ m.similarity_score <= Pct(100)
    /\ m.match_type = "fuzzy" => /\ m.similarity_score >= Pct(60)
                                 /\ m.similarity_score <= Pct(100)

\* C28: every match that find_column_matches returns has a score its type
\* allows: 'alias' exactly 95.0; 'pattern' 90.0 or 80.0; 'exact' at least
\* 90 (100.0 from the exact phase, 90 or more from fuzzy pass a); 'fuzzy'
\* at least 60, a 'fuzzy' match of pass a below 90, a match of pass b
\* 'fuzzy' at any score from 60 up to 100.
C28_TypeScoreRelation ==
    /\ [](\A k \in 1..Len(matches) : ScoreFitsType(matches[k]))
    /\ [](pc = "done" => \A k \in 1..Len(result) : ScoreFitsType(result[k]))
    /\ [][/\ pc = "exact" =>
               \A k \in (Len(matches) + 1)..Len(matches') :
                  /\ matches'[k].match_type = "exact"
                  /\ matches'[k].similarity_score = Pct(100)
          /\ pc = "fuzzy" =>
               \A k \in (Len(matches) + 1)..Len(matches') :
                  /\ matches'[k].match_type = "fuzzy"
                        => /\ matches'[k].similarity_score >= Pct(70)
                           /\ matches'[k].similarity_score < Pct(90)
                  /\ matches'[k].match_type \in {"exact", "fuzzy"}
          /\ pc = "context" =>
               \A k \in (Len(matches) + 1)..Len(matches') :
                  matches'[k].match_type = "fuzzy"]_vars

\* a result holds a match of pass b typed 'fuzzy' with a score of 90 or
\* more, next to a pattern match; pass a has given a 'fuzzy' match
C28_Witness ==
    /\ pc = "done"
    /\ \E f, p \in 1..Len(result) :
          /\ result[f].match_type = "fuzzy"
          /\ result[f].similarity_score >= Pct(90)
          /\ result[p].match_type = "pattern"
    /\ \E e \in 1..Len(matches) :
          /\ matches[e].match_type = "exact"
          /\ matches[e].similarity_score < Pct(100)

-----------------------------------------------------------------------------
(* SQLGenerator: the extractor of candidate column names                  *)

\* column_indicators of _extract_potential_column_names
ColumnIndicators == <<
    \* by (\w+)
    <<Lit(<<"b","y"," ">>), Open, Rep(WordClass, 1, TRUE), Close>>,
    \* where (\w+)
    <<Lit(<<"w","h","e","r","e"," ">>), Open, Rep(WordClass, 1, TRUE), Close>>,
    \* select (\w+)
    <<Lit(<<"s","e","l","e","c","t"," ">>), Open, Rep(WordClass, 1, TRUE), Close>>,
    \* show (\w+)
    <<Lit(<<"s","h","o","w"," ">>), Open, Rep(WordClass, 1, TRUE), Close>>,
    \* find (\w+)
    <<Lit(<<"f","i","n","d"," ">>), Open, Rep(WordClass, 1, TRUE), Close>>,
    \* with (\w+)
    <<Lit(<<"w","i","t","h"," ">>), Open, Rep(WordClass, 1, TRUE), Close>>,
    \* (\w+) is
    <<Open, Rep(WordClass, 1, TRUE), Close, Lit(<<" ","i","s">>)>>,
    \* (\w+) equals
    <<Open, Rep(WordClass, 1, TRUE), Close, Lit(<<" ","e","q","u","a","l","s">>)>>,
    \* (\w+) contains
    <<Open, Rep(WordClass, 1, TRUE), Close, Lit(<<" ","c","o","n","t","a","i","n","s">>)>>
>>

\* common_fields, in the order of the list
CommonFields == <<
    \* name
    <<"n","a","m","e">>,
    \* email
    <<"e","m","a","i","l">>,
    \* phone
    <<"p","h","o","n","e">>,
    \* status
    <<"s","t","a","t","u","s">>,
    \* type
    <<"t","y","p","e">>,
    \* date
    <<"d","a","t","e">>,
    \* id
    <<"i","d">>,
    \* title
    <<"t","i","t","l","e">>,
    \* description
    <<"d","e","s","c","r","i","p","t","i","o","n">>,
    \* amount
    <<"a","m","o","u","n","t">>,
    \* address
    <<"a","d","d","r","e","s","s">>,
    \* city
    <<"c","i","t","y">>,
    \* state
    <<"s","t","a","t","e">>,
    \* country
    <<"c","o","u","n","t","r","y">>,
    \* created
    <<"c","r","e","a","t","e","d">>,
    \* modified
    <<"m","o","d","i","f","i","e","d">>,
    \* updated
    <<"u","p","d","a","t","e","d">>,
    \* deleted
    <<"d","e","l","e","t","e","d">>,
    \* active
    <<"a","c","t","i","v","e">>,
    \* inactive
    <<"i","n","a","c","t","i","v","e">>,
    \* first_name
    <<"f","i","r","s","t","_","n","a","m","e">>,
    \* last_name
    <<"l","a","s","t","_","n","a","m","e">>,
    \* full_name
    <<"f","u","l","l","_","n","a","m","e">>,
    \* company
    <<"c","o","m","p","a","n","y">>,
    \* organization
    <<"o","r","g","a","n","i","z","a","t","i","o","n">>,
    \* semester
    <<"s","e","m","e","s","t","e","r">>,
    \* session
    <<"s","e","s","s","i","o","n">>,
    \* program
    <<"p","r","o","g","r","a","m">>,
    \* course
    <<"c","o","u","r","s","e">>,
    \* instructor
    <<"i","n","s","t","r","u","c","t","o","r">>,
    \* teacher
    <<"t","e","a","c","h","e","r">>,
    \* student
    <<"s","t","u","d","e","n","t">>,
    \* school
    <<"s","c","h","o","o","l">>,
    \* grade
    <<"g","r","a","d","e">>,
    \* subject
    <<"s","u","b","j","e","c","t">>,
    \* availability
    <<"a","v","a","i","l","a","b","i","l","i","t","y">>,
    \* schedule
    <<"s","c","h","e","d","u","l","e">>
>>

\* stop_words
StopWords == {
    <<"a">>,
    <<"a","n">>,
    <<"t","h","e">>,
    <<"i","s">>,
    <<"a","r","e">>,
    <<"w","a","s">>,
    <<"w","e","r","e">>,
    <<"b","e">>,
    <<"b","e","e","n">>,
    <<"h","a","v","e">>,
    <<"h","a","s">>,
    <<"h","a","d">>,
    <<"d","o">>,
    <<"d","o","e","s">>,
    <<"d","i","d">>,
    <<"w","i","l","l">>,
    <<"w","o","u","l","d">>,
    <<"c","o","u","l","d">>,
    <<"s","h","o","u","l","d">>,
    <<"m","a","y">>,
    <<"m","i","g","h","t">>,
    <<"c","a","n">>,
    <<"m","u","s","t">>,
    <<"s","h","a","l","l">>,
    <<"t","o">>,
    <<"o","f">>,
    <<"i","n">>,
    <<"o","n">>,
    <<"a","t">>,
    <<"b","y">>,
    <<"f","o","r">>,
    <<"w","i","t","h">>,
    <<"f","r","o","m">>,
    <<"u","p">>,
    <<"a","b","o","u","t">>,
    <<"i","n","t","o">>,
    <<"t","h","r","o","u","g","h">>,
    <<"d","u","r","i","n","g">>,
    <<"b","e","f","o","r","e">>,
    <<"a","f","t","e","r">>,
    <<"a","b","o","v","e">>,
    <<"b","e","l","o","w">>,
    <<"b","e","t","w","e","e","n">>,
    <<"a","m","o","n","g">>,
    <<"a","n","d">>,
    <<"o","r">>,
    <<"b","u","t">>,
    <<"i","f">>,
    <<"t","h","e","n">>,
    <<"e","l","s","e">>,
    <<"w","h","e","n">>,
    <<"w","h","e","r","e">>,
    <<"w","h","y">>,
    <<"h","o","w">>,
    <<"w","h","a","t">>,
    <<"w","h","o">>,
    <<"w","h","i","c","h">>,
    <<"t","h","a","t">>,
    <<"t","h","i","s">>,
    <<"t","h","e","s","e">>,
    <<"t","h","o","s","e">>,
    <<"a","l","l">>,
    <<"a","n","y">>,
    <<"s","o","m","e">>,
    <<"m","a","n","y">>,
    <<"m","u","c","h">>,
    <<"m","o","r","e">>,
    <<"m","o","s","t">>,
    <<"o","t","h","e","r">>,
    <<"s","u","c","h">>,
    <<"n","o">>,
    <<"n","o","r">>,
    <<"n","o","t">>,
    <<"o","n","l","y">>,
    <<"o","w","n">>,
    <<"s","a","m","e">>,
    <<"s","o">>,
    <<"t","h","a","n">>,
    <<"t","o","o">>,
    <<"v","e","r","y">>,
    <<"j","u","s","t">>,
    <<"n","o","w">>
}

\* str.isalpha() for the characters of the model: at least one character,
\* letters only
IsAlpha(s) ==
    /\ s # <<>>
    /\ \A i \in 1..Len(s) :
          \E k \in 1..26 : UpperChars[k] = s[i] \/ LowerChars[k] = s[i]

\* the set potential_columns of the extractor: the words the indicator
\* patterns capture in the lowercased query, and the common fields that
\* occur in it
IndicatedColumns(query) ==
    LET query_lower == Lower(query)
        captured == UNION {{found[k] : k \in 1..Len(found)} :
                              found \in {FindAll(ColumnIndicators[i],
                                                 query_lower, 1) :
                                            i \in 1..Len(ColumnIndicators)}}
        mentioned == {CommonFields[i] : i \in {i \in 1..Len(CommonFields) :
                          Contains(query_lower, CommonFields[i])}}
    IN captured \cup mentioned

\* mutant: the filter without the test of the length
FilteredColumns_KeepsShort(query) ==
    {col \in IndicatedColumns(query) :
        col \notin StopWords /\ IsAlpha(col)}

\* filtered_columns as a set: very short words, stop words and words that
\* are not alphabetic are dropped
FilteredColumns(query) ==
    {col \in IndicatedColumns(query) :
        Len(col) > 2 /\ col \notin StopWords /\ IsAlpha(col)}

\* the orders in which the loop over a set can deliver its elements: the
\* sequences that hold every element of S once
Orders(S) ==
    {order \in [1..Cardinality(S) -> S] :
        \A i, j \in 1..Cardinality(S) : order[i] = order[j] => i = j}

\* the natural-language queries handed to the pre-processing
NaturalQueries == {
    \* show statu with statuss
    <<"s","h","o","w"," ","s","t","a","t","u"," ","w","i","t","h"," ",
    "s","t","a","t","u","s","s">>,
    \* Show Email where the id is 5 by first_name
    <<"S","h","o","w"," ","E","m","a","i","l"," ","w","h","e","r","e",
    " ","t","h","e"," ","i","d"," ","i","s"," ","5"," ","b","y"," ",
    "f","i","r","s","t","_","n","a","m","e">>,
    \* find sttaus, select titel
    <<"f","i","n","d"," ","s","t","t","a","u","s",","," ","s","e","l",
    "e","c","t"," ","t","i","t","e","l">>,
    \* find xyz
    <<"f","i","n","d"," ","x","y","z">>,
    \* ''
    <<>>
}

\* the tokens of the queries, each query once
TokensTable ==
    [q \in NaturalQueries |-> FilteredColumns(q)] @@ <<>>

\* _extract_potential_column_names as a set of tokens
ExtractPotentialColumnNames(query) ==
    IF query \in DOMAIN TokensTable THEN TokensTable[query]
    ELSE FilteredColumns(query)

-----------------------------------------------------------------------------
(* SQLGenerator._preprocess_query_with_fuzzy_matching, token by token      *)

\* f"For '{potential_col}', consider: {table}.{column}", with the
\* similarity behind it for a best match below 85
PreprocessSuggestion(potential_col, best_match) ==
    <<"F","o","r"," ","'">> \o potential_col \o <<"'",","," ","c","o","n","s","i","d","e","r",":"," ">>
    \o best_match.table_name \o <<".">> \o best_match.matched_column
    \o (IF best_match.similarity_score < Pct(85)
        THEN <<" ","(","s","i","m","i","l","a","r","i","t","y",":"," ">> \o Format1f(best_match.similarity_score)
             \o <<"%",")">>
        ELSE <<>>)

\* the call: suggestions = [], enhanced_query = natural_query
PreprocessCall(query, schema) ==
    /\ pc = "idle"
    /\ natural_query' = query
    /\ enhanced_query' = query
    /\ schema_info' = schema
    /\ suggestions' = <<>>
    /\ pc' = "p_extract"
    /\ UNCHANGED <<matcher, finder, sql_query, error_message, pattern,
                   potential_columns, found_names, valid_columns, is_valid,
                   looked_up>>
    /\ UNCHANGED <<called, frames, endpoint, database>>

\* potential_columns = self._extract_potential_column_names(natural_query):
\* the list is filled by a loop over a set, in the order the set gives
ExtractColumnNames ==
    /\ pc = "p_extract"
    /\ \E order \in Orders(ExtractPotentialColumnNames(natural_query)) :
          potential_columns' = order
    /\ pc' = "p_column"
    /\ UNCHANGED <<matcher, finder, schema_info, sql_query, error_message,
                   pattern, found_names, valid_columns, is_valid,
                   suggestions, looked_up>>
    /\ UNCHANGED <<called, frames, natural_query, enhanced_query, endpoint,
                   database>>

\* mutant: a best match of exactly 80 is written into the query too
PreprocessColumn_ReplacesFrom80 ==
    /\ pc = "p_column"
    /\ potential_columns # <<>>
    /\ ~CatalogRaises(schema_info)
    /\ \E potential_col \in {Head(potential_columns)} :
       \E found \in {FindColumnMatches(potential_col, schema_info, 3)} :
          IF found # <<>> /\ found[1].similarity_score < Pct(95)
          THEN /\ suggestions' =
                     Append(suggestions,
                            PreprocessSuggestion(potential_col, found[1]))
               /\ enhanced_query' =
                     IF found[1].similarity_score >= Pct(80)
                     THEN Replace(enhanced_query, potential_col,
                                  found[1].table_name \o <<".">>
                                  \o found[1].matched_column)
                     ELSE enhanced_query
          ELSE UNCHANGED <<suggestions, enhanced_query>>
    /\ potential_columns' = Tail(potential_columns)
    /\ UNCHANGED <<pc, matcher, finder, schema_info, sql_query,
                   error_message, pattern, found_names, valid_columns,
                   is_valid, looked_up>>
    /\ UNCHANGED <<called, frames, natural_query, endpoint, database>>

\* one turn of the loop over potential_columns
PreprocessColumn ==
    /\ pc = "p_column"
    /\ potential_columns # <<>>
    /\ ~CatalogRaises(schema_info)
    /\ \E potential_col \in {Head(potential_columns)} :
       \E found \in {FindColumnMatches(potential_col, schema_info, 3)} :
          IF found # <<>> /\ found[1].similarity_score < Pct(95)
          THEN /\ suggestions' =
                     Append(suggestions,
                            PreprocessSuggestion(potential_col, found[1]))
               /\ enhanced_query' =
                     IF found[1].similarity_score > Pct(80)
                     THEN Replace(enhanced_query, potential_col,
                                  found[1].table_name \o <<".">>
                                  \o found[1].matched_column)
                     ELSE enhanced_query
          ELSE UNCHANGED <<suggestions, enhanced_query>>
    /\ potential_columns' = Tail(potential_columns)
    /\ UNCHANGED <<pc, matcher, finder, schema_info, sql_query,
                   error_message, pattern, found_names, valid_columns,
                   is_valid, looked_up>>
    /\ UNCHANGED <<called, frames, natural_query, endpoint, database>>

\* the lookup of a token with a schema map that the catalog loop cannot
\* read: KeyError (fuzzy_matcher.py, line 109)
PreprocessRaises ==
    /\ pc = "p_column"
    /\ potential_columns # <<>>
    /\ CatalogRaises(schema_info)
    /\ pc' = "p_raised"
    /\ UNCHANGED <<matcher, finder, schema_info, callers>>
    /\ UNCHANGED <<called, frames, pipeline>>

\* return enhanced_query, suggestions
PreprocessReturn ==
    /\ pc = "p_column"
    /\ potential_columns = <<>>
    /\ pc' = "p_done"
    /\ UNCHANGED <<matcher, finder, schema_info, callers>>
    /\ UNCHANGED <<called, frames, pipeline>>

\* the caller has taken (enhanced_query, suggestions)
PreprocessForget ==
    /\ pc \in {"p_done", "p_raised"}
    /\ pc' = "idle"
    /\ natural_query' = <<>>
    /\ enhanced_query' = <<>>
    /\ schema_info' = <<>>
    /\ suggestions' = <<>>
    /\ potential_columns' = <<>>
    /\ UNCHANGED <<matcher, finder, sql_query, error_message, pattern,
                   found_names, valid_columns, is_valid, looked_up>>
    /\ called' = TRUE
    /\ UNCHANGED <<frames, endpoint, database>>

NextPreprocess ==
    \/ /\ pc = "idle"
       /\ \E query \in NaturalQueries, schema \in Schemas \cup MalformedSchemas :
             PreprocessCall(query, schema)
    \/ ExtractColumnNames
    \/ PreprocessColumn
    \/ PreprocessRaises
    \/ PreprocessReturn
    \/ PreprocessForget

SpecPreprocess == Init /\ [][NextPreprocess]_vars

-----------------------------------------------------------------------------
(* The tokens of the natural-language extractor                            *)

\* the list holds no token twice, and every token is longer than 2, is no
\* stop word and is made of letters only
WellFiltered(tokens) ==
    /\ \A i, j \in 1..Len(tokens) : tokens[i] = tokens[j] => i = j
    /\ \A i \in 1..Len(tokens) :
          /\ Len(tokens[i]) > 2
          /\ tokens[i] \notin StopWords
          /\ IsAlpha(tokens[i])
          /\ tokens[i] # <<"i","d">>
          /\ tokens[i] # <<"f","i","r","s","t","_","n","a","m","e">>

\* C22: every token that _extract_potential_column_names returns is longer
\* than 2, is not in the stop-word set and is alphabetic, and no token is
\* returned twice, for the tokens of the phrasal patterns and for the
\* common field words alike ('id' and 'first_name' are never returned).
C22_ExtractedTokensFiltered ==
    [][pc = "p_extract" => WellFiltered(potential_columns')]_vars

\* the extractor has returned its tokens for a query in which the patterns
\* capture 'the', 'id' and 'first_name' and in which the common fields
\* 'id' and 'first_name' occur: the list holds a captured token and a
\* common field, and none of these
C22_Witness ==
    /\ pc = "p_column"
    /\ {<<"t","h","e">>, <<"i","d">>,
        <<"f","i","r","s","t","_","n","a","m","e">>}
          \subseteq IndicatedColumns(natural_query)
    /\ Len(potential_columns) = 2
    /\ \E i, j \in 1..2 :
          /\ potential_columns[i] = <<"e","m","a","i","l">>
          /\ potential_columns[j] = <<"n","a","m","e">>

-----------------------------------------------------------------------------
(* What the pre-processing does with a token                               *)

\* the best score of the lookup of the token, -1 if nothing is found
BestScore(token, schema) ==
    The({IF found = <<>> THEN 0 - 1 ELSE found[1].similarity_score :
            found \in {FindColumnMatches(token, schema, 3)}})

\* the name that is written into the query for the token
BestName(token, schema) ==
    The({found[1].table_name \o <<".">> \o found[1].matched_column :
            found \in {FindColumnMatches(token, schema, 3)}})

\* C26: for each extracted token with a non-empty match list a suggestion
\* is appended if and only if the best match scores below 95, and the token
\* is replaced in the query text by 'table.column' if and only if the best
\* score is strictly between 80 and 95; hence, when every token has a best
\* match of at least 95 or no match, the enhanced query is the original
\* query and the suggestion list is empty.
C26_SuggestBelow95ReplaceAbove80 ==
    /\ [][(pc = "p_column" /\ pc' = "p_column") =>
             \E token \in {Head(potential_columns)} :
             \E best \in {BestScore(token, schema_info)} :
                /\ Len(suggestions') =
                      Len(suggestions)
                      + (IF best >= 0 /\ best < Pct(95) THEN 1 ELSE 0)
                /\ SubSeq(suggestions', 1, Len(suggestions)) = suggestions
                /\ enhanced_query' =
                      IF best > Pct(80) /\ best < Pct(95)
                      THEN Replace(enhanced_query, token,
                                   BestName(token, schema_info))
                      ELSE enhanced_query]_vars
    /\ [](pc = "p_done" =>
             ((\A token \in ExtractPotentialColumnNames(natural_query) :
                  \E best \in {BestScore(token, schema_info)} :
                     best < 0 \/ best >= Pct(95))
                 => enhanced_query = natural_query /\ suggestions = <<>>))

\* the pre-processing has returned with a token whose best match scores
\* exactly 80.0 suggested but not written into the query, and a token
\* whose best match lies between 80 and 95 suggested and written into it
C26_Witness ==
    /\ pc = "p_done"
    /\ Len(suggestions) = 2
    /\ enhanced_query # natural_query
    /\ \E t1, t2 \in ExtractPotentialColumnNames(natural_query) :
          /\ BestScore(t1, schema_info) = Pct(80)
          /\ Contains(natural_query, t1)
          /\ Contains(enhanced_query, t1)
          /\ BestScore(t2, schema_info) > Pct(80)
          /\ BestScore(t2, schema_info) < Pct(95)
          /\ Contains(natural_query, t2)
          /\ ~Contains(enhanced_query, t2)
          /\ Contains(enhanced_query, BestName(t2, schema_info))

-----------------------------------------------------------------------------
(* The order of the tokens and the enhanced query                          *)

\* the text the loop of the pre-processing has made of the query when it
\* has taken the tokens of the order from the i-th on
RECURSIVE EnhancedFrom(_, _, _, _)
EnhancedFrom(query, schema, order, i) ==
    IF i > Len(order) THEN query
    ELSE EnhancedFrom(
             The({IF best > Pct(80) /\ best < Pct(95)
                  THEN Replace(query, order[i], BestName(order[i], schema))
                  ELSE query :
                     best \in {BestScore(order[i], schema)}}),
             schema, order, i + 1)

\* C27: the enhanced query of _preprocess_query_with_fuzzy_matching is a
\* function of the natural-language query and the schema: it does not
\* depend on the order in which the extracted tokens, held in a set, are
\* processed; any two orders of the same tokens give the same text.
C27_EnhancedQueryOrderIndependent ==
    (pc = "p_done" /\ ~CatalogRaises(schema_info)) =>
        \A order \in Orders(ExtractPotentialColumnNames(natural_query)) :
            EnhancedFrom(natural_query, schema_info, order, 1)
                = enhanced_query

-----------------------------------------------------------------------------
(* process_query (src/main.py): one request of the web layer               *)

\* Python values whose type the response model looks at
PyNone == [type |-> "NoneType", value |-> <<>>]

PyStr(text) == [type |-> "str", value |-> text]

PyList(items) == [type |-> "list", value |-> items]

\* column_corrections = {}
PyDict == [type |-> "dict", value |-> <<>>]

\* an optional local: nothing yet, or the one value
Nothing == <<>>

Just(v) == <<v>>

\* the result sets execute_query returns (rows are numbered, not spelled)
ResultSets == {<<>>, <<1>>, <<1, 2>>}

\* raise Exception(f"Failed to get schema info: {str(e)}")
SchemaFailure == <<"F","a","i","l","e","d"," ","t","o"," ","g","e","t"," ","s","c","h","e","m","a"," ","i","n","f","o",":"," ","u","n","a","b","l","e"," ","t","o"," ","o","p","e","n"," ","d","a","t","a","b","a","s","e"," ","f","i","l","e">>

\* raise Exception(f"Failed to generate SQL: {str(e)}")
GenerationFailure == <<"F","a","i","l","e","d"," ","t","o"," ","g","e","n","e","r","a","t","e"," ","S","Q","L",":"," ","r","a","t","e"," ","l","i","m","i","t"," ","r","e","a","c","h","e","d">>

\* raise Exception(f"Database error: {str(e)}")
DatabaseError(message) == <<"D","a","t","a","b","a","s","e"," ","e","r","r","o","r",":"," ">> \o message

\* str(e) of the error the response model raises for arguments it refuses
ResponseFailure == <<"v","a","l","i","d","a","t","i","o","n"," ","e","r","r","o","r"," ","f","o","r"," ","Q","u","e","r","y","R","e","s","p","o","n","s","e">>

\* the replies of the language model: SQL texts, bare or in a code fence
LlmReplies ==
    SqlQueries
    \cup {<<"backtick","backtick","backtick","s","q","l">> \o <<"\n">> \o <<"S","E","L","E","C","T"," ","E","m","i","a","l"," ","F","R","O","M"," ","C","o","n","t","a","c","t">> \o <<"\n">> \o <<"backtick","backtick","backtick">>,
          <<" ">> \o <<"S","E","L","E","C","T"," ","S","t","a","t","u","s"," ","F","R","O","M"," ","S","e","s","s","i","o","n","backtick","backtick","backtick">> \o <<"\n">>}

\* generate_sql, the clean-up of the reply
CleanReply(reply) ==
    LET stripped == Strip(reply)
        opened == IF StartsWith(stripped, <<"backtick","backtick","backtick","s","q","l">>)
                  THEN Drop(stripped, 6) ELSE stripped
        closed == IF EndsWith(opened, <<"backtick","backtick","backtick">>)
                  THEN SubSeq(opened, 1, Len(opened) - 3) ELSE opened
    IN Strip(closed)

\* the releases of the model library differ on one point: a field written
\* `list = None` takes a None handed in by name in the releases that read
\* the annotation as optional (1.x) and refuses it in the others (2.x);
\* the repository names no release
Releases == {"optional", "strict"}

\* a field declared str: a str is taken
StrFieldTakes(arg, release) ==
    \/ arg.type = "str"
    \/ arg.type = "NoneType" /\ release = "optional"

\* a field declared list: a list is taken, a dict is refused by every release
ListFieldTakes(arg, release) ==
    \/ arg.type = "list"
    \/ arg.type = "NoneType" /\ release = "optional"

\* QueryResponse(**args): the arguments handed in by name are validated
\* against sql: str, results: list, error: str, suggestions: list,
\* fuzzy_matches: list; a field left out takes its default unvalidated
QueryResponseTakes(args, release) ==
    /\ "sql" \in DOMAIN args => args.sql.type = "str"
    /\ "results" \in DOMAIN args => args.results.type = "list"
    /\ "error" \in DOMAIN args => StrFieldTakes(args.error, release)
    /\ "suggestions" \in DOMAIN args
          => ListFieldTakes(args.suggestions, release)
    /\ "fuzzy_matches" \in DOMAIN args
          => ListFieldTakes(args.fuzzy_matches, release)

\* the model object: the fields left out hold the default None
QueryResponse(args) ==
    [f \in {"sql", "results", "error", "suggestions", "fuzzy_matches"} |->
        IF f \in DOMAIN args THEN args[f] ELSE PyNone]

\* except Exception as e: return QueryResponse(sql="", results=[], error=str(e))
FailureResponse(text) ==
    QueryResponse([sql |-> PyStr(<<>>), results |-> PyList(<<>>),
                   error |-> PyStr(text)])

\* return QueryResponse(**args) inside the outer try: a refusal of the
\* arguments is an exception the outer handler answers
Respond(args, release) ==
    IF QueryResponseTakes(args, release)
    THEN QueryResponse(args)
    ELSE FailureResponse(ResponseFailure)

\* the requests of the clients
Requests == {<<"f","i","n","d"," ","s","t","t","a","u","s",","," ","s","e","l","e","c","t"," ","t","i","t","e","l">>,
             <<"f","i","n","d"," ","x","y","z">>}

\* the schema maps get_schema_info returns have at most MaxEndpointCols columns
MaxEndpointCols == 2

EndpointSchemas ==
    {SchemaOf(I) : I \in {J \in SUBSET (1..Len(ColumnPool)) :
                              Cardinality(J) <= MaxEndpointCols}}

\* the messages of the database driver that execute_query wraps
DriverMessages ==
    {<<"U","n","k","n","o","w","n"," ","c","o","l","u","m","n"," ","'","S","t","t","a","u","s","'"," ","i","n"," ","'","f","i","e","l","d"," ","l","i","s","t","'">>,
     <<"n","o"," ","s","u","c","h"," ","c","o","l","u","m","n",":"," ","S","e","s","s","i","o","n",".","S","t","t","a","u","s">>,
     <<"T","a","b","l","e"," ","'","S","t","t","a","u","s","'"," ","d","o","e","s","n","'","t"," ","e","x","i","s","t">>}

\* POST /api/query: process_query(request) with request.query
ProcessQuery(query) ==
    /\ step = "idle"
    /\ pc = "idle"
    /\ natural_query' = query
    /\ step' = "schema"
    /\ UNCHANGED <<pc, matcher, finder, schema_info, callers, called, frames,
                   enhanced_query, database>>
    /\ UNCHANGED <<generated_sql, validated_sql, validation_suggestions,
                   db_error, error_analysis, executed, steps_run, response>>

\* schema_info = await db_manager.get_schema_info()
GetSchemaInfo ==
    /\ step = "schema"
    /\ steps_run' = Append(steps_run, "schema")
    /\ \E schema \in EndpointSchemas : schema_info' = schema
    /\ step' = "sample"
    /\ UNCHANGED <<pc, matcher, finder, callers, called, frames,
                   natural_query, enhanced_query, database>>
    /\ UNCHANGED <<generated_sql, validated_sql, validation_suggestions,
                   db_error, error_analysis, executed, response>>

\* get_schema_info raises: the outer handler answers
GetSchemaInfoFails ==
    /\ step = "schema"
    /\ steps_run' = Append(steps_run, "schema")
    /\ response' = Just(FailureResponse(SchemaFailure))
    /\ step' = "done"
    /\ UNCHANGED <<pc, matcher, finder, schema_info, callers, called, frames,
                   natural_query, enhanced_query, database>>
    /\ UNCHANGED <<generated_sql, validated_sql, validation_suggestions,
                   db_error, error_analysis, executed>>

\* sample_data = await db_manager.get_sample_data(): a table that cannot
\* be read gives an empty sample, the call itself returns
GetSampleData ==
    /\ step = "sample"
    /\ steps_run' = Append(steps_run, "sample")
    /\ step' = "generate"
    /\ UNCHANGED <<pc, matcher, finder, schema_info, callers, called, frames,
                   natural_query, enhanced_query, database>>
    /\ UNCHANGED <<generated_sql, validated_sql, validation_suggestions,
                   db_error, error_analysis, executed, response>>

\* sql_query = await sql_generator.generate_sql(...): the reply of the
\* language model, cleaned
GenerateSql ==
    /\ step = "generate"
    /\ steps_run' = Append(steps_run, "generate")
    /\ \E reply \in LlmReplies : generated_sql' = CleanReply(reply)
    /\ step' = "validate"
    /\ UNCHANGED <<pc, matcher, finder, schema_info, callers, called, frames,
                   natural_query, enhanced_query, database>>
    /\ UNCHANGED <<validated_sql, validation_suggestions, db_error,
                   error_analysis, executed, response>>

\* the chain raises: generate_sql raises, the outer handler answers
GenerateSqlFails ==
    /\ step = "generate"
    /\ steps_run' = Append(steps_run, "generate")
    /\ response' = Just(FailureResponse(GenerationFailure))
    /\ step' = "done"
    /\ UNCHANGED <<pc, matcher, finder, schema_info, callers, called, frames,
                   natural_query, enhanced_query, database>>
    /\ UNCHANGED <<generated_sql, validated_sql, validation_suggestions,
                   db_error, error_analysis, executed>>

\* validate_and_suggest_sql(sql_query, schema_info) calls
\* self.fuzzy_matcher.validate_sql_columns(sql_query, schema_info)
ValidateAndSuggestCall ==
    /\ step = "validate"
    /\ pc = "idle"
    /\ steps_run' = Append(steps_run, "validate")
    /\ step' = "validating"
    /\ sql_query' = generated_sql
    /\ suggestions' = <<>>
    /\ is_valid' = TRUE
    /\ valid_columns' = ValidColumns(schema_info)
    /\ pattern' = 1
    /\ potential_columns' = <<>>
    /\ looked_up' = <<>>
    /\ pc' = "v_pattern"
    /\ UNCHANGED <<matcher, finder, schema_info, error_message, found_names,
                   called, frames, natural_query, enhanced_query, database>>
    /\ UNCHANGED <<generated_sql, validated_sql, validation_suggestions,
                   db_error, error_analysis, executed, response>>

\* if not is_valid: return sql_query, suggestions / return sql_query, []
ValidateAndSuggestReturn ==
    /\ step = "validating"
    /\ pc = "v_done"
    /\ validated_sql' = sql_query
    /\ validation_suggestions' = IF ~is_valid THEN suggestions ELSE <<>>
    /\ step' = "execute"
    /\ pc' = "idle"
    /\ UNCHANGED <<matcher, finder, schema_info, callers, called, frames,
                   natural_query, enhanced_query, database>>
    /\ UNCHANGED <<generated_sql, db_error, error_analysis, executed,
                   steps_run, response>>

\* mutant: a query that validation flagged is answered without being run
ExecuteQuery_SkipsFlagged ==
    /\ step = "execute"
    /\ steps_run' = Append(steps_run, "execute")
    /\ executed' = IF validation_suggestions = <<>>
                   THEN Append(executed, validated_sql) ELSE executed
    /\ \E rows \in ResultSets, release \in Releases :
          response' =
             Just(Respond([sql |-> PyStr(validated_sql),
                           results |-> PyList(rows),
                           suggestions |->
                              IF validation_suggestions # <<>>
                              THEN PyList(validation_suggestions)
                              ELSE PyNone],
                          release))
    /\ step' = "done"
    /\ UNCHANGED <<pc, matcher, finder, schema_info, callers, called, frames,
                   natural_query, enhanced_query, database>>
    /\ UNCHANGED <<generated_sql, validated_sql, validation_suggestions,
                   db_error, error_analysis>>

\* results = await db_manager.execute_query(validated_sql) returns:
\* return QueryResponse(sql=validated_sql, results=results,
\*     suggestions=validation_suggestions if validation_suggestions else None)
ExecuteQuery ==
    /\ step = "execute"
    /\ steps_run' = Append(steps_run, "execute")
    /\ executed' = Append(executed, validated_sql)
    /\ \E rows \in ResultSets, release \in Releases :
          response' =
             Just(Respond([sql |-> PyStr(validated_sql),
                           results |-> PyList(rows),
                           suggestions |->
                              IF validation_suggestions # <<>>
                              THEN PyList(validation_suggestions)
                              ELSE PyNone],
                          release))
    /\ step' = "done"
    /\ UNCHANGED <<pc, matcher, finder, schema_info, callers, called, frames,
                   natural_query, enhanced_query, database>>
    /\ UNCHANGED <<generated_sql, validated_sql, validation_suggestions,
                   db_error, error_analysis>>

\* execute_query raises Exception("Database error: ..."): except Exception
\* as db_error
ExecuteQueryFails ==
    /\ step = "execute"
    /\ steps_run' = Append(steps_run, "execute")
    /\ executed' = Append(executed, validated_sql)
    /\ \E message \in DriverMessages :
          db_error' = Just(DatabaseError(message))
    /\ step' = "error"
    /\ UNCHANGED <<pc, matcher, finder, schema_info, callers, called, frames,
                   natural_query, enhanced_query, database>>
    /\ UNCHANGED <<generated_sql, validated_sql, validation_suggestions,
                   error_analysis, response>>

\* handle_sql_error(str(db_error), validated_sql, schema_info) calls
\* self.fuzzy_matcher.suggest_column_corrections(error_message, schema_info)
HandleSqlErrorCall ==
    /\ step = "error"
    /\ pc = "idle"
    /\ step' = "analysing"
    /\ error_message' = db_error[1]
    /\ suggestions' = <<>>
    /\ pattern' = 1
    /\ found_names' = <<>>
    /\ pc' = "s_pattern"
    /\ UNCHANGED <<matcher, finder, schema_info, sql_query, is_valid,
                   valid_columns, potential_columns, looked_up, called,
                   frames, natural_query, enhanced_query, database>>
    /\ UNCHANGED <<generated_sql, validated_sql, validation_suggestions,
                   db_error, error_analysis, executed, steps_run, response>>

\* handle_sql_error returns its dictionary; process_query builds
\* QueryResponse(sql=validated_sql, results=[], error=str(db_error),
\*     suggestions=error_analysis.get('suggestions', []),
\*     fuzzy_matches=error_analysis.get('column_corrections', {}))
HandleSqlErrorReturn ==
    /\ step = "analysing"
    /\ pc = "s_done"
    /\ \E analysis \in {[error_type |-> "column_name_error",
                         original_error |-> error_message,
                         suggestions |-> suggestions,
                         corrected_sql |-> validated_sql,
                         column_corrections |-> PyDict]} :
          /\ error_analysis' = Just(analysis)
          /\ \E release \in Releases :
                response' =
                   Just(Respond([sql |-> PyStr(validated_sql),
                                 results |-> PyList(<<>>),
                                 error |-> PyStr(db_error[1]),
                                 suggestions |-> PyList(analysis.suggestions),
                                 fuzzy_matches |-> analysis.column_corrections],
                                release))
    /\ step' = "done"
    /\ pc' = "idle"
    /\ UNCHANGED <<matcher, finder, schema_info, callers, called, frames,
                   natural_query, enhanced_query, database>>
    /\ UNCHANGED <<generated_sql, validated_sql, validation_suggestions,
                   db_error, executed, steps_run>>

\* the response has gone to the client, the locals of the request are gone
ProcessQueryForget ==
    /\ step = "done"
    /\ step' = "idle"
    /\ natural_query' = <<>>
    /\ schema_info' = <<>>
    /\ sql_query' = <<>>
    /\ error_message' = <<>>
    /\ pattern' = 0
    /\ potential_columns' = <<>>
    /\ found_names' = <<>>
    /\ valid_columns' = {}
    /\ is_valid' = TRUE
    /\ suggestions' = <<>>
    /\ looked_up' = <<>>
    /\ generated_sql' = <<>>
    /\ validated_sql' = <<>>
    /\ validation_suggestions' = <<>>
    /\ db_error' = Nothing
    /\ error_analysis' = Nothing
    /\ executed' = <<>>
    /\ steps_run' = <<>>
    /\ response' = Nothing
    /\ UNCHANGED <<pc, matcher, finder, called, frames, enhanced_query,
                   database>>

NextQuery ==
    \/ \E query \in Requests : ProcessQuery(query)
    \/ GetSchemaInfo
    \/ GetSchemaInfoFails
    \/ GetSampleData
    \/ GenerateSql
    \/ GenerateSqlFails
    \/ ValidateAndSuggestCall
    \/ FindCandidates
    \/ SkipKeyword
    \/ KnownColumn
    \/ LookupColumn
    \/ NextPattern
    \/ ValidateReturn
    \/ ValidateAndSuggestReturn
    \/ ExecuteQuery
    \/ ExecuteQueryFails
    \/ HandleSqlErrorCall
    \/ FindColumnNames
    \/ SuggestForName
    \/ NextErrorPattern
    \/ SuggestReturn
    \/ HandleSqlErrorReturn
    \/ ProcessQueryForget

SpecQuery == Init /\ [][NextQuery]_vars

-----------------------------------------------------------------------------
(* C24: validation is advisory                                              *)

\* the query of the request was flagged by validation
Flagged == validation_suggestions # <<>>

\* C24: validate_and_suggest_sql hands back the SQL text it was given,
\* unchanged, with the suggestions of validate_sql_columns when the query
\* was judged invalid and with an empty list when it was judged valid;
\* process_query then hands exactly that text to execute_query whether
\* or not it was flagged, and when the execution returns, a flagged query
\* is answered with the text, the rows and the suggestions (no error),
\* an unflagged one without suggestions.
C24_ValidationIsAdvisory ==
    /\ [][(step = "validating" /\ step' = "execute")
            => /\ validated_sql' = generated_sql
               /\ validation_suggestions' =
                     IF is_valid THEN <<>> ELSE suggestions]_vars
    /\ [][(step = "execute" /\ step' # "execute")
            => /\ executed' = Append(executed, generated_sql)
               /\ validated_sql = generated_sql]_vars
    /\ [][(step = "execute" /\ step' = "done")
            => /\ response' # Nothing
               /\ response'[1].suggestions =
                     IF Flagged THEN PyList(validation_suggestions)
                     ELSE PyNone
               /\ Flagged
                     => /\ response'[1].sql = PyStr(generated_sql)
                        /\ response'[1].results.value \in ResultSets
                        /\ response'[1].error = PyNone]_vars

\* a flagged query has been executed and answered with rows and the warning
C24_Witness ==
    /\ step = "done"
    /\ Flagged
    /\ ~is_valid
    /\ executed = <<generated_sql>>
    /\ response # Nothing
    /\ response[1].sql = PyStr(generated_sql)
    /\ response[1].results.value # <<>>
    /\ response[1].suggestions = PyList(validation_suggestions)
    /\ response[1].error = PyNone

-----------------------------------------------------------------------------
(* C29: process_query answers every failure                                 *)

\* the order of the steps of a request
StepOrder == <<"schema", "sample", "generate", "validate", "execute">>

\* the request got as far as the execution
Executing == Len(steps_run) = Len(StepOrder)

\* the steps started so far are the first steps of the order, and a
\* finished request has an answer
C29_StepsInOrderAndAnswered ==
    /\ Len(steps_run) <= Len(StepOrder)
    /\ steps_run = SubSeq(StepOrder, 1, Len(steps_run))
    /\ step = "done" => response # Nothing
    /\ step # "done" => response = Nothing

\* a request that failed before the execution is answered with sql == "",
\* results == [] and the text of the error, and nothing was executed
C29_EarlyFailureAnswered ==
    (step = "done" /\ ~Executing)
       => /\ executed = <<>>
          /\ \E text \in {SchemaFailure, GenerationFailure} :
                response[1] = FailureResponse(text)

\* the dictionary of handle_sql_error carries the SQL text unchanged
C29_CorrectedSqlIsOriginal ==
    error_analysis # Nothing
       => /\ error_analysis[1].corrected_sql = validated_sql
          /\ error_analysis[1].original_error = db_error[1]

\* C29: process_query never lets an exception out and always answers;
\* its steps run in the order schema fetch, sample-data fetch, SQL
\* generation, validation, execution; a failure before the execution is
\* answered with sql == "", results == [] and the error text, and the
\* query is not executed; a failure of the execution is answered with
\* the validated SQL, results == [], the text of the database error and
\* the suggestions of handle_sql_error, whose corrected_sql is the
\* original SQL.
C29_EveryFailureAnswered ==
    /\ C29_StepsInOrderAndAnswered
    /\ C29_EarlyFailureAnswered
    /\ C29_CorrectedSqlIsOriginal
    /\ (step = "done" /\ db_error # Nothing)
          => /\ executed = <<validated_sql>>
             /\ error_analysis # Nothing
             /\ response[1].sql = PyStr(validated_sql)
             /\ response[1].results = PyList(<<>>)
             /\ response[1].error = PyStr(db_error[1])
             /\ response[1].suggestions =
                   PyList(error_analysis[1].suggestions)

-----------------------------------------------------------------------------
(* _execute_sqlite_query and _execute_mysql_query (src/database.py)        *)

\* str.upper() of one character
UpperChar(c) ==
    IF \E i \in 1..26 : LowerChars[i] = c
    THEN UpperChars[CHOOSE i \in 1..26 : LowerChars[i] = c]
    ELSE c

\* str.upper()
Upper(s) == [i \in 1..Len(s) |-> UpperChar(s[i])]

\* the tuple of prefixes handed to startswith
ReadPrefixes(sqlite) ==
    IF sqlite THEN {<<"S","E","L","E","C","T">>, <<"P","R","A","G","M","A">>}
    ELSE {<<"S","E","L","E","C","T">>, <<"S","H","O","W">>, <<"D","E","S","C","R","I","B","E">>}

\* sql.strip().upper().startswith((...))
IsReadStatement(text, sqlite) ==
    \E prefix \in ReadPrefixes(sqlite) : StartsWith(Upper(Strip(text)), prefix)

\* the statements handed to _execute_sqlite_query / _execute_mysql_query
Statements == {
    <<"S","E","L","E","C","T"," ","*"," ","F","R","O","M"," ","C","o","n","t","a","c","t">>,
    <<" ", " ">> \o <<"s","e","l","e","c","t"," ","S","t","a","t","u","s"," ","f","r","o","m"," ","S","e","s","s","i","o","n">> \o <<"\n">>,
    <<"P","R","A","G","M","A"," ","t","a","b","l","e","_","i","n","f","o","(","C","o","n","t","a","c","t",")">>,
    <<"S","H","O","W"," ","T","A","B","L","E","S">>,
    <<"d","e","s","c","r","i","b","e"," ","C","o","n","t","a","c","t">>,
    <<"D","E","L","E","T","E"," ","F","R","O","M"," ","C","o","n","t","a","c","t">>,
    <<"u","p","d","a","t","e"," ","C","o","n","t","a","c","t"," ","s","e","t"," ","T","i","t","l","e"," ","="," ","'","x","'">>,
    <<"I","N","S","E","R","T"," ","I","N","T","O"," ","C","o","n","t","a","c","t"," ","V","A","L","U","E","S"," ","(","1",")">>,
    <<"W","I","T","H"," ","t"," ","A","S"," ","(","S","E","L","E","C","T"," ","1",")"," ","S","E","L","E","C","T"," ","*"," ","F","R","O","M"," ","t">>,
    <<>>
}

\* _execute_query_sync(sql): conn = None, then the try block is entered
ExecuteQuerySync(text, sqlite) ==
    /\ dpc = "idle"
    /\ use_sqlite' = sqlite
    /\ statement' = text
    /\ conn' = "None"
    /\ db_calls' = <<>>
    /\ exc' = Nothing
    /\ outcome' = Nothing
    /\ dpc' = "connect"
    /\ UNCHANGED <<pc, matcher, finder, schema_info, callers, called, frames,
                   natural_query, enhanced_query, endpoint>>

\* conn = sqlite3.connect(...) / connection = pymysql.connect(...)
Connect ==
    /\ dpc = "connect"
    /\ db_calls' = Append(db_calls, "connect")
    /\ conn' = "open"
    /\ dpc' = "execute"
    /\ UNCHANGED <<pc, matcher, finder, schema_info, callers, called, frames,
                   natural_query, enhanced_query, endpoint>>
    /\ UNCHANGED <<use_sqlite, statement, exc, outcome>>

\* connect raises: conn is still None when the handler runs
ConnectFails ==
    /\ dpc = "connect"
    /\ db_calls' = Append(db_calls, "connect")
    /\ exc' = Just("connect")
    /\ dpc' = "except"
    /\ UNCHANGED <<pc, matcher, finder, schema_info, callers, called, frames,
                   natural_query, enhanced_query, endpoint>>
    /\ UNCHANGED <<use_sqlite, statement, conn, outcome>>

\* cursor.execute(sql), then the test of the kind of statement
Execute ==
    /\ dpc = "execute"
    /\ db_calls' = Append(db_calls, "execute")
    /\ dpc' = IF IsReadStatement(statement, use_sqlite)
              THEN "fetch" ELSE "commit"
    /\ UNCHANGED <<pc, matcher, finder, schema_info, callers, called, frames,
                   natural_query, enhanced_query, endpoint>>
    /\ UNCHANGED <<use_sqlite, statement, conn, exc, outcome>>

\* cursor.execute(sql) raises
ExecuteFails ==
    /\ dpc = "execute"
    /\ db_calls' = Append(db_calls, "execute")
    /\ exc' = Just("execute")
    /\ dpc' = "except"
    /\ UNCHANGED <<pc, matcher, finder, schema_info, callers, called, frames,
                   natural_query, enhanced_query, endpoint>>
    /\ UNCHANGED <<use_sqlite, statement, conn, outcome>>

\* results = cursor.fetchall(); return ...
Fetch ==
    /\ dpc = "fetch"
    /\ db_calls' = Append(db_calls, "fetchall")
    /\ dpc' = "finally"
    /\ UNCHANGED <<pc, matcher, finder, schema_info, callers, called, frames,
                   natural_query, enhanced_query, endpoint>>
    /\ UNCHANGED <<use_sqlite, statement, conn, exc, outcome>>

\* cursor.fetchall() raises
FetchFails ==
    /\ dpc = "fetch"
    /\ db_calls' = Append(db_calls, "fetchall")
    /\ exc' = Just("fetchall")
    /\ dpc' = "except"
    /\ UNCHANGED <<pc, matcher, finder, schema_info, callers, called, frames,
                   natural_query, enhanced_query, endpoint>>
    /\ UNCHANGED <<use_sqlite, statement, conn, outcome>>

\* conn.commit(); return [{"affected_rows": ...}]
Commit ==
    /\ dpc = "commit"
    /\ db_calls' = Append(db_calls, "commit")
    /\ dpc' = "finally"
    /\ UNCHANGED <<pc, matcher, finder, schema_info, callers, called, frames,
                   natural_query, enhanced_query, endpoint>>
    /\ UNCHANGED <<use_sqlite, statement, conn, exc, outcome>>

\* conn.commit() raises
CommitFails ==
    /\ dpc = "commit"
    /\ db_calls' = Append(db_calls, "commit")
    /\ exc' = Just("commit")
    /\ dpc' = "except"
    /\ UNCHANGED <<pc, matcher, finder, schema_info, callers, called, frames,
                   natural_query, enhanced_query, endpoint>>
    /\ UNCHANGED <<use_sqlite, statement, conn, outcome>>

\* except Exception as e: if conn: conn.rollback(); raise e
Except ==
    /\ dpc = "except"
    /\ db_calls' = IF conn # "None"
                   THEN Append(db_calls, "rollback") ELSE db_calls
    /\ dpc' = "finally"
    /\ UNCHANGED <<pc, matcher, finder, schema_info, callers, called, frames,
                   natural_query, enhanced_query, endpoint>>
    /\ UNCHANGED <<use_sqlite, statement, conn, exc, outcome>>

\* mutant: the connection is closed on the way out of a failure only
Finally_ClosesOnFailureOnly ==
    /\ dpc = "finally"
    /\ db_calls' = IF conn # "None" /\ exc # Nothing
                   THEN Append(db_calls, "close") ELSE db_calls
    /\ conn' = IF conn # "None" /\ exc # Nothing THEN "closed" ELSE conn
    /\ outcome' = IF exc = Nothing
                  THEN Just([kind |-> "returned", exception |-> "None"])
                  ELSE Just([kind |-> "raised", exception |-> exc[1]])
    /\ dpc' = "done"
    /\ UNCHANGED <<pc, matcher, finder, schema_info, callers, called, frames,
                   natural_query, enhanced_query, endpoint>>
    /\ UNCHANGED <<use_sqlite, statement, exc>>

\* finally: if conn: conn.close(); then the pending return or raise
Finally ==
    /\ dpc = "finally"
    /\ db_calls' = IF conn # "None"
                   THEN Append(db_calls, "close") ELSE db_calls
    /\ conn' = IF conn # "None" THEN "closed" ELSE conn
    /\ outcome' = IF exc = Nothing
                  THEN Just([kind |-> "returned", exception |-> "None"])
                  ELSE Just([kind |-> "raised", exception |-> exc[1]])
    /\ dpc' = "done"
    /\ UNCHANGED <<pc, matcher, finder, schema_info, callers, called, frames,
                   natural_query, enhanced_query, endpoint>>
    /\ UNCHANGED <<use_sqlite, statement, exc>>

\* the caller has taken the rows or the exception
ExecuteForget ==
    /\ dpc = "done"
    /\ dpc' = "idle"
    /\ statement' = <<>>
    /\ conn' = "None"
    /\ db_calls' = <<>>
    /\ exc' = Nothing
    /\ outcome' = Nothing
    /\ UNCHANGED <<pc, matcher, finder, schema_info, callers, called, frames,
                   natural_query, enhanced_query, endpoint>>
    /\ UNCHANGED use_sqlite

NextExecute ==
    \/ \E text \in Statements, sqlite \in BOOLEAN :
          ExecuteQuerySync(text, sqlite)
    \/ Connect
    \/ ConnectFails
    \/ Execute
    \/ ExecuteFails
    \/ Fetch
    \/ FetchFails
    \/ Commit
    \/ CommitFails
    \/ Except
    \/ Finally
    \/ ExecuteForget

SpecExecute == Init /\ [][NextExecute]_vars

-----------------------------------------------------------------------------
(* C30: the connection is closed once, rolled back on failure, committed   *)
(* for statements that are not read statements                             *)

\* how often a call was made
Calls(name) == Cardinality({i \in 1..Len(db_calls) : db_calls[i] = name})

\* the text starts, trimmed and in any case, with one of the words
StartsWithWord(text, words) ==
    \E word \in words : StartsWith(Upper(Strip(text)), word)

\* the call has ended
Ended == dpc = "done"

====
